---- MODULE Spec2Model ----
(***************************************************************************)
(* A model of the course generation pipeline of src/course_generator.py:   *)
(*   - the staged workflow (the StateGraph `workflow` and its six nodes),  *)
(*   - the transition function should_continue,                            *)
(*   - the generator generate_course (the definition Python binds, the     *)
(*     second one of the file) with generate_section_content,              *)
(*     generate_session_assessment and validate_course_structure,          *)
(*   - the four line parsers the stages call.                              *)
(*                                                                         *)
(* Python values are modelled as follows.  An Optional value is a sequence *)
(* of length at most one (<<>> is None, <<v>> is v).  A dict is a record;  *)
(* dict.get(key) on a dict without the key is the test key \in DOMAIN.     *)
(* A text is a sequence of lines, a line is a record of its leading marker *)
(* and its remaining words (see the section on lines below).  A raised     *)
(* exception is a result record carrying str(e).                           *)
(***************************************************************************)
EXTENDS Integers, Sequences, FiniteSets, TLC

(***************************************************************************)
(* Bounds of the model (none of them is a constant of the program).        *)
(***************************************************************************)
\* largest number of module headings the backend puts in an outline reply
MaxOutlineModules == 6
\* largest number of session headers the backend puts in a session outline
MaxSessions == 1
\* largest value of the retry counter fed to should_continue
MaxRetries == 6
\* largest number of backend calls that fail in one run of generate_course
MaxFailures == 1

(***************************************************************************)
(* Optional values and exceptions.                                         *)
(***************************************************************************)
None == <<>>

Some(v) == <<v>>

\* Python truthiness of an Optional[str]: None and "" are falsy
TruthyStr(o) == o # None /\ o[1] # ""

\* str(e) of the exceptions a backend call raises: a timeout carries no text
ErrorMessages == {"", "backend down"}

RECURSIVE SumSeq(_)
SumSeq(s) == IF s = <<>> THEN 0 ELSE Head(s) + SumSeq(Tail(s))

\* the value of an expression in which a name stands for a value computed
\* once: The({e(x) : x \in {v}}) is e(v)
The(S) == CHOOSE x \in S : TRUE

RECURSIVE Flatten(_)
Flatten(ss) == IF ss = <<>> THEN <<>> ELSE Head(ss) \o Flatten(Tail(ss))

(***************************************************************************)
(* Lines.  A line, after line.strip(), is its leading marker (the run of   *)
(* marker characters it starts with, "" when it starts with a word) and    *)
(* the words that follow; ":" is a word of its own.  A blank line has no   *)
(* marker and no words.                                                    *)
(***************************************************************************)
Line(lead, words) == [lead |-> lead, words |-> words]

BlankLine == Line("", <<>>)

IsBlank(l) == l.lead = "" /\ l.words = <<>>

\* line.startswith('#')
StartsWithHash(l) == l.lead \in {"#", "##", "###", "####"}

\* line.startswith('##')
StartsWithTwoHashes(l) == l.lead \in {"##", "###", "####"}

\* ' '.join of words, with no blank before a ":"
RECURSIVE JoinWords(_)
JoinWords(ws) ==
  IF ws = <<>> THEN ""
  ELSE IF Len(ws) = 1 THEN ws[1]
  ELSE IF ws[2] = ":" THEN ws[1] \o JoinWords(Tail(ws))
  ELSE ws[1] \o " " \o JoinWords(Tail(ws))

\* the stripped line as a string
LineText(l) ==
  IF l.lead = "" THEN JoinWords(l.words)
  ELSE IF l.words = <<>> THEN l.lead
  ELSE IF l.lead \in {"**", "* "} THEN l.lead \o JoinWords(l.words)
  ELSE l.lead \o " " \o JoinWords(l.words)

\* '\n'.join(lines)
RECURSIVE JoinLines(_)
JoinLines(ls) ==
  IF ls = <<>> THEN ""
  ELSE IF Len(ls) = 1 THEN ls[1]
  ELSE ls[1] \o "\n" \o JoinLines(Tail(ls))

\* index of the first ":" word, 0 when there is none
RECURSIVE FirstColonFrom(_, _)
FirstColonFrom(ws, i) ==
  IF i > Len(ws) THEN 0
  ELSE IF ws[i] = ":" THEN i
  ELSE FirstColonFrom(ws, i + 1)

FirstColon(ws) == FirstColonFrom(ws, 1)

\* words that \d+ matches as a whole
IntWords == {ToString(i) : i \in 0..9}

\* the session number "m.j"
Dotted(m, j) == ToString(m) \o "." \o ToString(j)

\* words in which re.search(r'\d+(\.\d+)?') finds a match (the whole word)
NumberWords == IntWords \cup {Dotted(m, j) : m \in 0..9, j \in 0..9}

\* the first word a number regex matches, None when there is none
RECURSIVE FirstNumber(_)
FirstNumber(ws) ==
  IF ws = <<>> THEN None
  ELSE IF Head(ws) \in NumberWords THEN Some(Head(ws))
  ELSE FirstNumber(Tail(ws))

\* index at which the words pat first occur in ws, 0 when they do not
RECURSIVE FindFrom(_, _, _)
FindFrom(ws, pat, i) ==
  IF i + Len(pat) - 1 > Len(ws) THEN 0
  ELSE IF SubSeq(ws, i, i + Len(pat) - 1) = pat THEN i
  ELSE FindFrom(ws, pat, i + 1)

Find(ws, pat) == FindFrom(ws, pat, 1)

\* the words after the first occurrence of pat: line.split(pat, 1)[1]
After(ws, pat) == SubSeq(ws, Find(ws, pat) + Len(pat), Len(ws))

(***************************************************************************)
(* parse_section_content: the sections of a module body or session reply.  *)
(* The state of the scan is (sections, current_section, current_list).     *)
(***************************************************************************)
\* a scan that starts with a section already open
SectionScanInitOpen ==
  [sections |-> <<>>,
   current_section |-> <<[title |-> "", content |-> "", subsections |-> <<>>]>>,
   current_list |-> <<>>]

SectionScanInit == [sections |-> <<>>, current_section |-> None, current_list |-> <<>>]

SectionScanStep(s, l) ==
  IF IsBlank(l) THEN s
  ELSE IF StartsWithHash(l) THEN
    LET flushed == s.current_section # None
        new == [title |-> JoinWords(l.words), content |-> "", subsections |-> <<>>]
    IN [sections |-> IF flushed
                     THEN Append(s.sections,
                                 [s.current_section[1] EXCEPT !.content = JoinLines(s.current_list)])
                     ELSE s.sections,
        current_section |-> Some(new),
        current_list |-> IF flushed THEN <<>> ELSE s.current_list]
  ELSE IF StartsWithTwoHashes(l) THEN
    IF s.current_list # <<>> THEN
      [s EXCEPT !.current_section =
                   IF s.current_section # None
                   THEN Some([s.current_section[1] EXCEPT !.subsections =
                                Append(@, [title |-> JoinWords(l.words),
                                           content |-> JoinLines(s.current_list)])])
                   ELSE None,
                !.current_list = <<>>]
    ELSE s
  ELSE [s EXCEPT !.current_list = Append(@, LineText(l))]

\* the for loop over the lines lo..hi: a left fold, computed as the fold of
\* the second half from the state the first half leaves
RECURSIVE SectionScan(_, _, _, _)
SectionScan(s, ls, lo, hi) ==
  IF lo > hi THEN s
  ELSE IF lo = hi THEN SectionScanStep(s, ls[lo])
  ELSE The({SectionScan(left, ls, (lo + hi) \div 2 + 1, hi) :
              left \in {SectionScan(s, ls, lo, (lo + hi) \div 2)}})

\* "Add the last section": only when lines are pending
SectionFinish(s) ==
  IF s.current_section # None /\ s.current_list # <<>>
  THEN Append(s.sections,
              [s.current_section[1] EXCEPT !.content = JoinLines(s.current_list)])
  ELSE s.sections

parse_section_content(content) ==
  The({SectionFinish(s) : s \in {SectionScan(SectionScanInit, content, 1, Len(content))}})

(***************************************************************************)
(* parse_session_outline: the session stubs of a session outline reply.    *)
(* The state of the scan is (sessions, current_session, current_section).  *)
(***************************************************************************)
\* A list holds references: when the same dict is appended to sessions more
\* than once, what later lines store in current_session shows in every one
\* of its entries.  dups is the number of entries of sessions that are the
\* current_session dict; s.sessions holds the entries that are older dicts.
SessionScanInit ==
  [sessions |-> <<>>, current_session |-> None, current_section |-> None, dups |-> 0]

\* line.startswith("**Session")
IsSessionHeader(l) == l.lead = "**" /\ l.words # <<>> /\ l.words[1] = "Session"

\* "if current_session and current_session.get('title'): sessions.append(...)":
\* the number of entries that are the current dict after this statement
Appends(s) ==
  IF s.current_session # None /\ s.current_session[1].title # ""
  THEN s.dups + 1
  ELSE s.dups

\* the list sessions when n of its entries are the current dict
Closed(s, n) ==
  IF n = 0 THEN s.sessions ELSE s.sessions \o [i \in 1..n |-> s.current_session[1]]

NewSessionStub(number, title) ==
  [session_number |-> number, title |-> title, description |-> "",
   key_concepts |-> <<>>, visual_elements |-> <<>>, resources |-> <<>>]

\* the header branch: the previous session is appended before the number is
\* looked for, and stays the current one when no number or no ":" is found
SessionHeaderStep(s, l) ==
  LET c == FirstColon(l.words)
      number == FirstNumber(SubSeq(l.words, 1, c - 1))
      title == JoinWords(SubSeq(l.words, c + 1, Len(l.words)))
  IN IF c = 0 \/ number = None
     THEN [s EXCEPT !.dups = Appends(s)]
     ELSE [sessions |-> Closed(s, Appends(s)),
           current_session |-> Some(NewSessionStub(number[1], title)),
           current_section |-> None,
           dups |-> 0]

SessionFieldStep(s, l) ==
  IF Find(l.words, <<"Description", ":">>) # 0 THEN
    [s EXCEPT !.current_section = Some("description"),
              !.current_session = Some([s.current_session[1] EXCEPT !.description =
                                          JoinWords(After(l.words, <<"Description", ":">>))])]
  ELSE IF Find(l.words, <<"Key", "Concepts", ":">>) # 0 THEN
    [s EXCEPT !.current_section = Some("key_concepts")]
  ELSE IF Find(l.words, <<"Visual", "Elements", ":">>) # 0 THEN
    [s EXCEPT !.current_section = Some("visual_elements")]
  ELSE IF Find(l.words, <<"Resources", ":">>) # 0 THEN
    [s EXCEPT !.current_section = Some("resources")]
  ELSE s

SessionItemStep(s, l) ==
  LET line_content == JoinWords(l.words)
      cur == s.current_session[1]
  IN IF s.current_section = Some("key_concepts") THEN
       [s EXCEPT !.current_session = Some([cur EXCEPT !.key_concepts = Append(@, line_content)])]
     ELSE IF s.current_section = Some("visual_elements") THEN
       [s EXCEPT !.current_session = Some([cur EXCEPT !.visual_elements = Append(@, line_content)])]
     ELSE IF s.current_section = Some("resources") THEN
       [s EXCEPT !.current_session = Some([cur EXCEPT !.resources = Append(@, line_content)])]
     ELSE s

SessionScanStep(s, l) ==
  IF IsBlank(l) THEN s
  ELSE IF IsSessionHeader(l) THEN SessionHeaderStep(s, l)
  ELSE IF s.current_session # None /\ l.lead = "* " THEN SessionFieldStep(s, l)
  ELSE IF s.current_session # None /\ s.current_section # None /\ l.lead \in {"+", "-"}
  THEN SessionItemStep(s, l)
  ELSE s

\* the for loop over the lines lo..hi: a left fold, computed as the fold of
\* the second half from the state the first half leaves
RECURSIVE SessionScan(_, _, _, _)
SessionScan(s, ls, lo, hi) ==
  IF lo > hi THEN s
  ELSE IF lo = hi THEN SessionScanStep(s, ls[lo])
  ELSE The({SessionScan(left, ls, (lo + hi) \div 2 + 1, hi) :
              left \in {SessionScan(s, ls, lo, (lo + hi) \div 2)}})

\* "Add the last session"
SessionFinish(s) == Closed(s, Appends(s))

parse_session_outline(outline) ==
  The({SessionFinish(s) : s \in {SessionScan(SessionScanInit, outline, 1, Len(outline))}})

(***************************************************************************)
(* parse_module_outline: the module stubs of an outline reply.  The state  *)
(* of the scan is (modules, current_module, current_section).              *)
(***************************************************************************)
\* str.lower() of the words the parsers look for
Lower(w) ==
  CASE w = "Title" -> "title"
    [] w = "Description" -> "description"
    [] w = "Objectives" -> "objectives"
    [] w = "Exercise" -> "exercise"
    [] w = "Answer" -> "answer"
    [] w = "Correct" -> "correct"
    [] OTHER -> w

LowerWords(ws) == [i \in 1..Len(ws) |-> Lower(ws[i])]

ModuleScanInit == [modules |-> <<>>, current_module |-> None, current_section |-> None]

\* re.match(r'^#{1,3}\s*Module\s+(\d+)[:\.]\s*(.+)$', line)
ModuleMatch(l) ==
  /\ l.lead \in {"#", "##", "###"}
  /\ Len(l.words) >= 4
  /\ l.words[1] = "Module"
  /\ l.words[2] \in IntWords
  /\ l.words[3] \in {":", "."}

NewModuleStub(l) ==
  [number |-> l.words[2], title |-> JoinWords(SubSeq(l.words, 4, Len(l.words))),
   description |-> "", objectives |-> <<>>, exercises |-> <<>>]

\* the "####" branch: which field the following lines go to
ModuleHeadingStep(s, l) ==
  LET name == LowerWords(l.words)
      has(w) == \E i \in 1..Len(name) : name[i] = w
  IN IF Find(name, <<"title", ":">>) # 0 THEN [s EXCEPT !.current_section = Some("title")]
     ELSE IF has("description") THEN [s EXCEPT !.current_section = Some("description")]
     ELSE IF has("objectives") THEN [s EXCEPT !.current_section = Some("objectives")]
     ELSE IF has("exercise") THEN [s EXCEPT !.current_section = Some("exercises")]
     ELSE s

\* line.lstrip('*+-• \t')
StripBullets(l) ==
  IF l.lead \in {"* ", "*", "+", "-"} THEN JoinWords(l.words) ELSE LineText(l)

ModuleContentStep(s, l) ==
  LET content == StripBullets(l)
      cur == s.current_module[1]
  IN IF content = "" THEN s
     ELSE IF s.current_section = Some("description") THEN
       [s EXCEPT !.current_module = Some([cur EXCEPT !.description =
            IF cur.description # "" THEN cur.description \o " " \o content ELSE content])]
     ELSE IF s.current_section = Some("objectives") THEN
       IF Len(l.words) >= 3 /\ SubSeq(l.words, 1, 3) = <<"Learning", "Objectives", ":">>
          /\ l.lead \in {"", "* ", "*", "+", "-"}
       THEN s
       ELSE [s EXCEPT !.current_module = Some([cur EXCEPT !.objectives = Append(@, content)])]
     ELSE IF s.current_section = Some("exercises") THEN
       [s EXCEPT !.current_module = Some([cur EXCEPT !.exercises = Append(@, content)])]
     ELSE s

ModuleScanStep(s, l) ==
  IF IsBlank(l) \/ l.lead \in {"**", "---"} THEN s
  ELSE IF ModuleMatch(l) THEN
    [modules |-> IF s.current_module # None THEN Append(s.modules, s.current_module[1])
                 ELSE s.modules,
     current_module |-> Some(NewModuleStub(l)),
     current_section |-> None]
  ELSE IF l.lead = "####" THEN ModuleHeadingStep(s, l)
  ELSE IF s.current_module # None /\ s.current_section # None THEN ModuleContentStep(s, l)
  ELSE s

\* the for loop over the lines lo..hi: a left fold, computed as the fold of
\* the second half from the state the first half leaves
RECURSIVE ModuleScan(_, _, _, _)
ModuleScan(s, ls, lo, hi) ==
  IF lo > hi THEN s
  ELSE IF lo = hi THEN ModuleScanStep(s, ls[lo])
  ELSE The({ModuleScan(left, ls, (lo + hi) \div 2 + 1, hi) :
              left \in {ModuleScan(s, ls, lo, (lo + hi) \div 2)}})

\* the end of the scan without "Add the last module"
ModuleFinishWithoutLast(s) == s.modules

\* "Add the last module"
ModuleFinish(s) ==
  IF s.current_module # None THEN Append(s.modules, s.current_module[1]) ELSE s.modules

parse_module_outline(outline) ==
  The({ModuleFinish(s) : s \in {ModuleScan(ModuleScanInit, outline, 1, Len(outline))}})

(***************************************************************************)
(* parse_assessment_content: the questions and answers of an assessment    *)
(* reply.  The state of the scan is (questions, answers, current_question, *)
(* current_answer); an answer is Optional (None when no answer line came). *)
(***************************************************************************)
AssessmentScanInit ==
  [questions |-> <<>>, answers |-> <<>>, current_question |-> None, current_answer |-> None]

\* re.match(r'^\d+\.', line)
IsNumbered(l) == l.lead \in {"1.", "2.", "3."}

\* line.lower().startswith(('answer:', 'correct answer:'))
IsAnswerLine(l) ==
  LET ws == LowerWords(l.words)
  IN /\ l.lead = ""
     /\ \/ Len(ws) >= 2 /\ SubSeq(ws, 1, 2) = <<"answer", ":">>
        \/ Len(ws) >= 3 /\ SubSeq(ws, 1, 3) = <<"correct", "answer", ":">>

AssessmentScanStep(s, l) ==
  IF IsBlank(l) THEN s
  ELSE IF IsNumbered(l) THEN
    [questions |-> IF s.current_question # None
                   THEN Append(s.questions, s.current_question[1]) ELSE s.questions,
     answers |-> IF s.current_question # None
                 THEN Append(s.answers, s.current_answer) ELSE s.answers,
     current_question |-> Some(LineText(l)),
     current_answer |-> None]
  ELSE IF IsAnswerLine(l) THEN
    [s EXCEPT !.current_answer = Some(JoinWords(After(l.words, <<":">>)))]
  ELSE s

\* the for loop over the lines lo..hi: a left fold, computed as the fold of
\* the second half from the state the first half leaves
RECURSIVE AssessmentScan(_, _, _, _)
AssessmentScan(s, ls, lo, hi) ==
  IF lo > hi THEN s
  ELSE IF lo = hi THEN AssessmentScanStep(s, ls[lo])
  ELSE The({AssessmentScan(left, ls, (lo + hi) \div 2 + 1, hi) :
              left \in {AssessmentScan(s, ls, lo, (lo + hi) \div 2)}})

\* "Add the last question": only when it has a question and an answer
AssessmentFinish(s) ==
  IF s.current_question # None /\ TruthyStr(s.current_answer)
  THEN [questions |-> Append(s.questions, s.current_question[1]),
        answers |-> Append(s.answers, s.current_answer)]
  ELSE [questions |-> s.questions, answers |-> s.answers]

parse_assessment_content(content) ==
  The({AssessmentFinish(s) : s \in {AssessmentScan(AssessmentScanInit, content, 1, Len(content))}})

(***************************************************************************)
(* The backend: llm.ainvoke either returns a reply (a text) or raises.     *)
(* The replies are canned texts in the format the prompts ask for, with    *)
(* as many records as the backend chooses to write.                        *)
(***************************************************************************)
Ok(content) == [ok |-> TRUE, content |-> content]

Fail(m) == [ok |-> FALSE, msg |-> m]

\* one module of an outline reply, in the format of the outline prompt
OutlineModuleLines(i) ==
  << Line("###", <<"Module", ToString(i), ":", "Topic", ToString(i)>>),
     Line("####", <<"Title", ":", "Basics">>),
     Line("####", <<"Description", "and", "Key", "Points", ":">>),
     Line("", <<"Covers", "the", "basics">>),
     BlankLine,
     Line("* ", <<"Learning", "Objectives", ":">>),
     Line("+", <<"Know", "it">>),
     BlankLine,
     Line("####", <<"Hands-on", "Exercise", ":">>),
     Line("", <<"Build", "it">>) >>

OutlineReply(n) == Flatten([i \in 1..n |-> OutlineModuleLines(i)])

OutlineReplies == {OutlineReply(n) : n \in 0..MaxOutlineModules}

\* one session of a session outline reply
SessionLines(j) ==
  << Line("**", <<"Session", Dotted(1, j), ":", "Part", ToString(j)>>),
     Line("* ", <<"Description", ":", "covers", "basics">>),
     Line("* ", <<"Key", "Concepts", ":">>),
     Line("+", <<"concept", "one">>) >>

SessionOutlineReply(k) == Flatten([j \in 1..k |-> SessionLines(j)])

SessionOutlineReplies == {SessionOutlineReply(k) : k \in 0..MaxSessions}

\* a module body or session content reply: noise, or two headed sections
SectionReplies ==
  { << Line("", <<"Sorry">>) >>,
    << Line("#", <<"Overview">>), Line("", <<"Some", "text">>),
       Line("##", <<"Key", "Concepts">>), Line("-", <<"a", "point">>) >> }

\* an assessment reply: nothing, or two numbered questions with answers
AssessmentReplies ==
  { <<>>,
    << Line("1.", <<"What", "is", "X?">>), Line("", <<"Answer", ":", "a">>),
       Line("2.", <<"Why", "Y?">>), Line("", <<"Answer", ":", "b">>) >> }

(***************************************************************************)
(* The expanders.  Each returns a result: the value it returned or the     *)
(* str(e) of what it raised, with the number of llm.ainvoke calls it made. *)
(***************************************************************************)
Returned(v, n) == [raised |-> FALSE, val |-> v, calls |-> n]

Raising(m, n) == [raised |-> TRUE, msg |-> m, calls |-> n]

\* modules[:5]
MaxModulesKept == 5

\* an outline that keeps every module the parser returned
TruncateNever(modules) == modules

\* "if len(modules) > 5: modules = modules[:5]"
Truncate(modules) ==
  IF Len(modules) > MaxModulesKept THEN SubSeq(modules, 1, MaxModulesKept) ELSE modules

create_course_outline(topic, language, o) ==
  IF ~o.ok THEN Raising(o.msg, 1)
  ELSE Returned([topic |-> topic, language |-> language,
                 description |-> "A comprehensive course on " \o topic,
                 prerequisites |-> <<>>,
                 modules |-> The({Truncate(modules) :
                                    modules \in {parse_module_outline(o.content)}})], 1)

\* a create_module_content that asks the backend once and reads the module
\* body and the session outline from the one reply
create_module_content_one_call(module_info, language, o1, o2) ==
  IF ~o1.ok THEN Raising(o1.msg, 1)
  ELSE Returned([module_number |-> module_info.number,
                         title |-> module_info.title,
                         description |-> module_info.description,
                         objectives |-> module_info.objectives,
                         sections |-> parse_section_content(o1.content),
                         sessions |-> parse_session_outline(o1.content)], 1)

create_module_content(module_info, language, o1, o2) ==
  IF ~o1.ok THEN Raising(o1.msg, 1)
  ELSE IF ~o2.ok THEN Raising(o2.msg, 2)
  ELSE Returned([module_number |-> module_info.number,
                         title |-> module_info.title,
                         description |-> module_info.description,
                         objectives |-> module_info.objectives,
                         sections |-> parse_section_content(o1.content),
                         sessions |-> parse_session_outline(o2.content)], 2)

create_session_content(module_number, session_number, title, language, o1, o2) ==
  IF ~o1.ok THEN Raising(o1.msg, 1)
  ELSE IF ~o2.ok THEN Raising(o2.msg, 2)
  ELSE Returned([session_number |-> session_number, title |-> title,
                         module_number |-> module_number, language |-> language,
                         sections |-> parse_section_content(o1.content),
                         assessment |-> [questions |->
                                           parse_assessment_content(o2.content)]], 2)

(***************************************************************************)
(* The module global _current_state (get_current_state, update_state).     *)
(***************************************************************************)
InitialCurrentState ==
  [topic |-> "", language |-> "", current_stage |-> "init", course_plan |-> <<>>,
   current_module |-> <<>>, current_session |-> <<>>, total_modules |-> 0,
   current_module_number |-> 0, total_sessions |-> 0, current_session_number |-> 0,
   errors |-> <<>>, status |-> "Initializing"]

get_current_state(g) == IF g = None THEN InitialCurrentState ELSE g[1]

\* the first three statements of create_session_content
MarkSessionGeneration(g) ==
  Some([get_current_state(g) EXCEPT !.current_stage = "session_generation"])

(***************************************************************************)
(* should_continue: the transition function of the workflow.               *)
(***************************************************************************)
\* "if state.get('retries', 0) >= 5"
RetryLimit == 5

should_continue(state) ==
  IF state.retries >= RetryLimit THEN "end"
  ELSE IF TruthyStr(state.error) THEN "end"
  ELSE IF state.completed THEN "end"
  ELSE IF state.current_stage = "start" THEN "create_outline"
  ELSE IF state.current_stage = "outline_created" THEN "create_modules"
  ELSE IF state.current_stage = "modules_created" THEN "create_sessions"
  ELSE IF state.current_stage = "sessions_created" THEN "finalize"
  ELSE "end"

(***************************************************************************)
(* The stage functions.  Each takes the state and the outcomes of the      *)
(* backend calls it is going to make (oracle[k] is the outcome of its k-th *)
(* call) and returns the state and the number of calls it made.            *)
(***************************************************************************)
Staged(state, n) == [state |-> state, calls |-> n]

\* a start node that leaves the retry counter of the input state as it is
create_initial_state_keeping_retries(state) ==
  [state EXCEPT !.current_stage = "start",
                !.status = "Initializing course generation",
                !.error = None,
                !.completed = FALSE]

\* a start node that leaves the error of the input state as it is
create_initial_state_keeping_error(state) ==
  [state EXCEPT !.current_stage = "start",
                !.status = "Initializing course generation",
                !.retries = 0,
                !.completed = FALSE]

create_initial_state(state) ==
  [state EXCEPT !.current_stage = "start",
                !.status = "Initializing course generation",
                !.error = None,
                !.retries = 0,
                !.completed = FALSE]

\* the first two assignments of a stage function
Enter(state, stage, status) == [state EXCEPT !.current_stage = stage, !.status = status]

\* the except branch of a stage function
Failed(s1, r) == Staged([s1 EXCEPT !.error = Some(r.msg)], r.calls)

OutlineStored(s1, r) ==
  IF r.raised THEN Failed(s1, r)
  ELSE Staged([s1 EXCEPT !.course_outline = Some(r.val),
                         !.current_stage = "outline_created"], r.calls)

create_course_outline_state(state, oracle) ==
  The({OutlineStored(Enter(state, "outline_creation", "Creating course outline"), r) :
         r \in {create_course_outline(state.topic, state.language, oracle[1])}})

\* the loop of create_module_content_state from module i on; n is the number
\* of calls made so far
RECURSIVE ModuleLoop(_, _, _, _, _, _)
RECURSIVE ModuleLoopNext(_, _, _, _, _, _, _)
ModuleLoop(stubs, language, oracle, i, modules, n) ==
  IF i > Len(stubs) THEN Returned(modules, n)
  ELSE The({ModuleLoopNext(r, stubs, language, oracle, i, modules, n) :
              r \in {create_module_content(stubs[i], language,
                                           oracle[n + 1], oracle[n + 2])}})

\* after module i: r is what create_module_content returned or raised
ModuleLoopNext(r, stubs, language, oracle, i, modules, n) ==
  IF r.raised THEN Raising(r.msg, n + r.calls)
  ELSE The({ModuleLoop(stubs, language, oracle, i + 1, done, n + r.calls) :
              done \in {Append(modules, r.val)}})

ModulesStored(s1, r) ==
  IF r.raised THEN Failed(s1, r)
  ELSE Staged([s1 EXCEPT !.modules = Some(r.val),
                         !.current_stage = "modules_created"], r.calls)

create_module_content_state(state, oracle) ==
  The({ModulesStored(Enter(state, "module_creation", "Creating module content"), r) :
         r \in {ModuleLoop(state.course_outline[1].modules, state.language, oracle,
                           1, <<>>, 0)}})

\* the inner loop of create_session_content_state over one module's stubs,
\* from stub j on; n is the number of calls made so far
RECURSIVE SessionLoop(_, _, _, _, _, _, _)
RECURSIVE SessionLoopNext(_, _, _, _, _, _, _, _)
SessionLoop(module, stubs, language, oracle, j, sessions, n) ==
  IF j > Len(stubs) THEN Returned(sessions, n)
  ELSE The({SessionLoopNext(r, module, stubs, language, oracle, j, sessions, n) :
              r \in {create_session_content(module.module_number,
                                            stubs[j].session_number, stubs[j].title,
                                            language, oracle[n + 1], oracle[n + 2])}})

\* after stub j: r is what create_session_content returned or raised
SessionLoopNext(r, module, stubs, language, oracle, j, sessions, n) ==
  IF r.raised THEN Raising(r.msg, n + r.calls)
  ELSE The({SessionLoop(module, stubs, language, oracle, j + 1, done, n + r.calls) :
              done \in {Append(sessions, r.val)}})

\* the outer loop from module i on: module["sessions"] = sessions rewrites the
\* module dict in place, so the modules done before a failure stay rewritten
RECURSIVE ExpandLoop(_, _, _, _, _)
RECURSIVE ExpandLoopNext(_, _, _, _, _)
ExpandLoop(modules, language, oracle, base, i) ==
  IF i > Len(modules) THEN [raised |-> FALSE, modules |-> modules, calls |-> base]
  ELSE The({ExpandLoopNext(r, modules, language, oracle, i) :
              r \in {SessionLoop(modules[i], modules[i].sessions, language, oracle,
                                 1, <<>>, base)}})

\* an outer loop without the statement module["sessions"] = sessions
ExpandLoopNextNotStored(r, modules, language, oracle, i) ==
  IF r.raised
  THEN [raised |-> TRUE, msg |-> r.msg, modules |-> modules, calls |-> r.calls]
  ELSE ExpandLoop(modules, language, oracle, r.calls, i + 1)

\* after module i: r is the list of its expanded sessions, or what was raised
ExpandLoopNext(r, modules, language, oracle, i) ==
  IF r.raised
  THEN [raised |-> TRUE, msg |-> r.msg, modules |-> modules, calls |-> r.calls]
  ELSE The({ExpandLoop(stored, language, oracle, r.calls, i + 1) :
              stored \in {[modules EXCEPT ![i].sessions = r.val]}})

SessionsStored(s1, r) ==
  IF r.raised THEN Failed([s1 EXCEPT !.modules = Some(r.modules)], r)
  ELSE Staged([s1 EXCEPT !.modules = Some(r.modules),
                         !.current_stage = "sessions_created"], r.calls)

create_session_content_state(state, oracle) ==
  The({SessionsStored(Enter(state, "session_creation", "Creating session content"), r) :
         r \in {ExpandLoop(state.modules[1], state.language, oracle, 0, 1)}})

\* a finalize stage that marks the run completed without storing the course
finalize_course_state_without_course(state) ==
  [Enter(state, "finalizing", "Finalizing course") EXCEPT
     !.completed = TRUE,
     !.current_stage = "completed"]

finalize_course_state(state) ==
  [Enter(state, "finalizing", "Finalizing course") EXCEPT
     !.course = Some([topic |-> state.topic, language |-> state.language,
                      description |-> state.course_outline[1].description,
                      prerequisites |-> state.course_outline[1].prerequisites,
                      modules |-> state.modules[1]]),
     !.completed = TRUE,
     !.current_stage = "completed"]

end_workflow(state) ==
  IF TruthyStr(state.error)
  THEN [state EXCEPT !.status = "Course generation failed: " \o state.error[1]]
  ELSE IF state.completed
  THEN [state EXCEPT !.status = "Course generation completed successfully"]
  ELSE [state EXCEPT !.status = "Course generation ended"]

VARIABLES
  node,      \* workflow: the node the graph runs next
  st,        \* workflow: the AgentState
  ran,       \* workflow: the nodes run so far, in order (history)
  calls,     \* workflow: llm.ainvoke calls made so far (history)
  current_state, \* the module global _current_state (None until first used)
  scState,   \* should_continue: the state it is applied to
  scResult,  \* should_continue: what it returned (None before the call)
  gpc,       \* generate_course: where the generator is suspended
  greply,    \* generate_course: the text the backend returns when it does not raise
  course,    \* generate_course: the course dict under construction
  events,    \* generate_course: the events yielded so far
  gcalls,    \* generate_course: llm.ainvoke calls made so far (history)
  gfails,    \* generate_course: llm.ainvoke calls that raised so far (history)
  gvalid,    \* generate_course: what validate_course_structure returned (None before)
  vCourse,   \* validate_course_structure: the course handed to it
  vResult,   \* validate_course_structure: Some(what it returned), None before the call
  pText,     \* a parser's argument: the reply text, a sequence of lines
  pResult,   \* the parser's return value, Some(list), None before the call
  cfsState,  \* create_course_from_state: the state dict it was given
  cfsTried,  \* create_course_from_state: the helper calls made so far (history)
  cfsResult, \* create_course_from_state: what it returned or raised (None before)
  rpc,       \* two interleaved runs: where each run's session stage is suspended
  rwriters,  \* two interleaved runs: the runs that have written _current_state (history)
  aState,    \* app: the SessionState object `state` (None before it is constructed)
  aCourses,  \* app: the files of CourseStorage, course id -> Optional course
  aProgress, \* app: the files of ProgressTracker, course id -> Optional progress data
  aReply,    \* app: the first element of what the last handler returned (None before)
  aUpdates,  \* app: the updates generate_with_status has delivered to on_generate
  aShown     \* app: the (status, content) pairs on_generate has yielded

vars == <<node, st, ran, calls, current_state, scState, scResult,
          gpc, greply, course, events, gcalls, gfails, gvalid,
          vCourse, vResult, pText, pResult,
          cfsState, cfsTried, cfsResult, rpc, rwriters,
          aState, aCourses, aProgress, aReply, aUpdates, aShown>>

wfVars == <<node, st, ran, calls, current_state>>

scVars == <<scState, scResult>>

genVars == <<gpc, greply, course, events, gcalls, gfails, gvalid>>

valVars == <<vCourse, vResult>>

parseVars == <<pText, pResult>>

cfsVars == <<cfsState, cfsTried, cfsResult>>

appVars == <<aState, aCourses, aProgress, aReply, aUpdates, aShown>>

runVars == <<rpc, rwriters>>

(***************************************************************************)
(* The staged workflow: the graph of six nodes, each followed by the       *)
(* conditional edge should_continue with the targets the edge maps.        *)
(***************************************************************************)
\* a graph whose finalize node has no edge to end
EdgeTargetsWithoutLastEdge(n) ==
  CASE n = "start" -> {"create_outline", "end"}
    [] n = "create_outline" -> {"create_modules", "end"}
    [] n = "create_modules" -> {"create_sessions", "end"}
    [] n = "create_sessions" -> {"finalize", "end"}
    [] n = "finalize" -> {}

\* the targets add_conditional_edges maps for each node
EdgeTargets(n) ==
  CASE n = "start" -> {"create_outline", "end"}
    [] n = "create_outline" -> {"create_modules", "end"}
    [] n = "create_modules" -> {"create_sessions", "end"}
    [] n = "create_sessions" -> {"finalize", "end"}
    [] n = "finalize" -> {"end"}

\* the node that follows n: a result the edge does not map raises in the graph
Route(n, state) ==
  LET r == should_continue(state)
  IN IF r \in EdgeTargets(n) THEN r ELSE "crashed"

\* the values an input state may carry in the fields the start node resets
InputStages == {"start", "outline_created", "completed"}

InputState ==
  { [topic |-> "Async IO", language |-> "English", current_stage |-> cs,
     status |-> "", error |-> e, retries |-> r, completed |-> c,
     course_outline |-> None, modules |-> None, course |-> None] :
    cs \in InputStages, e \in {None, Some("old error")}, r \in {0, RetryLimit},
    c \in BOOLEAN }

\* the outcomes of the calls of one stage (the backend answers every module
\* body prompt of a run with one text, the session outline prompts of the first
\* modules with one text and those of the remaining modules with another): the failAt-th call raises msg (none
\* when failAt = 0), the others return reply[k]
Oracle(n, failAt, msg, reply) ==
  [k \in 1..n |-> IF k = failAt THEN Fail(msg) ELSE Ok(reply[k])]

\* the graph stores the state a stage function returned; r.calls counts its calls
StageDone(r) ==
  /\ st' = r.state
  /\ calls' = calls + r.calls

WorkflowInit ==
  /\ node = "start"
  /\ st \in InputState
  /\ ran = <<>>
  /\ calls = 0
  /\ current_state = None

StartNode ==
  /\ node = "start"
  /\ st' = create_initial_state(st)
  /\ node' = Route("start", st')
  /\ ran' = Append(ran, "start")
  /\ UNCHANGED <<calls, current_state, scVars, genVars, valVars, parseVars, cfsVars, runVars, appVars>>

CreateOutlineNode ==
  /\ node = "create_outline"
  /\ \E o \in {Ok(r) : r \in OutlineReplies} \cup {Fail(m) : m \in ErrorMessages} :
       \E r \in {create_course_outline_state(st, <<o>>)} : StageDone(r)
  /\ node' = Route("create_outline", st')
  /\ ran' = Append(ran, "create_outline")
  /\ UNCHANGED <<current_state, scVars, genVars, valVars, parseVars, cfsVars, runVars, appVars>>

CreateModulesNode ==
  /\ node = "create_modules"
  /\ \E m \in {Len(st.course_outline[1].modules)} :
        \E failAt \in 0..(2 * m), msg \in ErrorMessages, body \in SectionReplies,
           first \in SessionOutlineReplies, rest \in SessionOutlineReplies,
           split \in 0..m :
          \E oracle \in {Oracle(2 * m, failAt, msg,
                                 [k \in 1..(2 * m) |->
                                    IF k % 2 = 1 THEN body
                                    ELSE IF k \div 2 <= split THEN first ELSE rest])} :
            \E r \in {create_module_content_state(st, oracle)} : StageDone(r)
  /\ node' = Route("create_modules", st')
  /\ ran' = Append(ran, "create_modules")
  /\ UNCHANGED <<current_state, scVars, genVars, valVars, parseVars, cfsVars, runVars, appVars>>

\* the number of session stubs of all modules
RECURSIVE CountSessions(_)
CountSessions(modules) ==
  IF modules = <<>> THEN 0 ELSE Len(Head(modules).sessions) + CountSessions(Tail(modules))

CreateSessionsNode ==
  /\ node = "create_sessions"
  /\ \E t \in {CountSessions(st.modules[1])} :
        \E failAt \in 0..(2 * t), msg \in ErrorMessages, content \in SectionReplies,
           assessment \in AssessmentReplies :
          \E oracle \in {Oracle(2 * t, failAt, msg,
                                 [k \in 1..(2 * t) |->
                                    IF k % 2 = 1 THEN content ELSE assessment])} :
            /\ \E r \in {create_session_content_state(st, oracle)} : StageDone(r)
            /\ current_state' = IF t > 0 THEN MarkSessionGeneration(current_state)
                                 ELSE current_state
  /\ node' = Route("create_sessions", st')
  /\ ran' = Append(ran, "create_sessions")
  /\ UNCHANGED <<scVars, genVars, valVars, parseVars, cfsVars, runVars, appVars>>

FinalizeNode ==
  /\ node = "finalize"
  /\ st' = finalize_course_state(st)
  /\ node' = Route("finalize", st')
  /\ ran' = Append(ran, "finalize")
  /\ UNCHANGED <<calls, current_state, scVars, genVars, valVars, parseVars, cfsVars, runVars, appVars>>

\* "end" is the finish point: the graph returns the state end_workflow returns
EndNode ==
  /\ node = "end"
  /\ st' = end_workflow(st)
  /\ node' = "finished"
  /\ ran' = Append(ran, "end")
  /\ UNCHANGED <<calls, current_state, scVars, genVars, valVars, parseVars, cfsVars, runVars, appVars>>

WorkflowIdle ==
  /\ node = "idle" /\ st = None /\ ran = <<>> /\ calls = 0
  /\ current_state = None

ScIdle == scState = None /\ scResult = None

GenIdle ==
  /\ gpc = [at |-> "idle", n |-> 0] /\ greply = None /\ course = None /\ events = <<>>
  /\ gcalls = 0 /\ gfails = 0 /\ gvalid = None

ValIdle == vCourse = None /\ vResult = None

ParseIdle == pText = None /\ pResult = None

CfsIdle == cfsState = None /\ cfsTried = <<>> /\ cfsResult = None

RunsIdle == rpc = None /\ rwriters = {}

AppIdle ==
  /\ aState = None /\ aCourses = None /\ aProgress = None
  /\ aReply = None /\ aUpdates = <<>> /\ aShown = <<>>

Init ==
  /\ WorkflowInit
  /\ ScIdle
  /\ GenIdle
  /\ ValIdle
  /\ ParseIdle
  /\ CfsIdle
  /\ RunsIdle
  /\ AppIdle

Next ==
  \/ StartNode
  \/ CreateOutlineNode
  \/ CreateModulesNode
  \/ CreateSessionsNode
  \/ FinalizeNode
  \/ EndNode

Spec == Init /\ [][Next]_vars

\* every backend call returns or raises, and the graph runs the next node
LiveSpec == Spec /\ WF_vars(Next)

(***************************************************************************)
(* should_continue as a function: applied once to a state drawn from the   *)
(* values its four fields can hold.                                        *)
(***************************************************************************)
AllStages ==
  {"start", "outline_creation", "outline_created", "module_creation", "modules_created",
   "session_creation", "sessions_created", "finalizing", "completed", "init"}

ScInputs ==
  [retries : 0..MaxRetries, error : {None, Some(""), Some("backend down")},
   completed : BOOLEAN, current_stage : AllStages]

ScInit ==
  /\ scState \in {Some(x) : x \in ScInputs}
  /\ scResult = None
  /\ WorkflowIdle
  /\ GenIdle
  /\ ValIdle
  /\ ParseIdle
  /\ CfsIdle
  /\ RunsIdle
  /\ AppIdle

ScApply ==
  /\ scResult = None
  /\ scResult' = Some(should_continue(scState[1]))
  /\ UNCHANGED <<scState, wfVars, genVars, valVars, parseVars, cfsVars, runVars, appVars>>

ScNext == ScApply

ScSpec == ScInit /\ [][ScNext]_vars

(***************************************************************************)
(* validate_course_structure.  Every value of the model that reaches it is *)
(* a dict of lists of dicts, so of its isinstance tests only the key tests *)
(* and the counts can fail.                                                *)
(***************************************************************************)
\* "if not section.get('section_content')": the key is absent or its text empty
HasSectionContent(section) ==
  IF "section_content" \in DOMAIN section THEN section.section_content # <<>> ELSE FALSE

ValidSession(session) ==
  IF "sections" \notin DOMAIN session THEN FALSE
  ELSE /\ 2 <= Len(session.sections) /\ Len(session.sections) <= 4
       /\ \A k \in 1..Len(session.sections) : HasSectionContent(session.sections[k])

ValidModule(module) ==
  IF "sessions" \notin DOMAIN module THEN FALSE
  ELSE /\ 3 <= Len(module.sessions) /\ Len(module.sessions) <= 5
       /\ \A j \in 1..Len(module.sessions) : ValidSession(module.sessions[j])

\* the validator without its test of the number of modules
validate_course_structure_any_count(c) ==
  IF "modules" \notin DOMAIN c THEN FALSE
  ELSE \A i \in 1..Len(c.modules) : ValidModule(c.modules[i])

validate_course_structure(c) ==
  IF "modules" \notin DOMAIN c THEN FALSE
  ELSE /\ 2 <= Len(c.modules) /\ Len(c.modules) <= 3
       /\ \A i \in 1..Len(c.modules) : ValidModule(c.modules[i])

(***************************************************************************)
(* generate_course (the second definition, which replaces the first when   *)
(* the module is loaded): an async generator.  One action runs it from one *)
(* yield to the next.  Its except clause is not modelled: the two helpers  *)
(* it awaits and the validator catch every Exception themselves.           *)
(***************************************************************************)
\* module_count, session_count and section_count of generate_course
module_count == 3

session_count == 4

section_count == 3

\* what str of the text a failed generate_section_content returns
ContentFailed == << Line("", <<"Content", "generation", "failed">>) >>

\* the texts the backend of one run may answer every prompt with
StubReplies == SectionReplies \cup AssessmentReplies

\* generate_section_content: o is the outcome of its llm.ainvoke call
generate_section_content(o) == IF o.ok THEN o.content ELSE ContentFailed

\* generate_session_assessment: o is the outcome of its llm.ainvoke call
generate_session_assessment(o) ==
  IF o.ok THEN parse_assessment_content(o.content)
  ELSE [questions |-> <<>>, answers |-> <<>>]

NewSection(m, j, k) ==
  [section_number |-> Dotted(m, j) \o "." \o ToString(k),
   title |-> "Section " \o Dotted(m, j) \o "." \o ToString(k),
   content |-> <<>>]

NewSession(m, j) ==
  [title |-> "Session " \o Dotted(m, j), session_number |-> Dotted(m, j),
   sections |-> [k \in 1..section_count |-> NewSection(m, j, k)]]

NewModule(m) ==
  [title |-> "Module " \o ToString(m),
   sessions |-> [j \in 1..session_count |-> NewSession(m, j)]]

\* sum(len(s["sections"]) for m in course["modules"] for s in m["sessions"])
TotalSections(c) ==
  SumSeq([i \in 1..Len(c.modules) |->
            SumSeq([j \in 1..Len(c.modules[i].sessions) |->
                      Len(c.modules[i].sessions[j].sections)])])

\* 40 + int((current_section / total_sections) * 50)
SectionProgress(current_section, total_sections) ==
  40 + (current_section * 50) \div total_sections

\* the place of the n-th section in the order the loops visit them
SectionPlace(n) ==
  [m |-> (n - 1) \div (session_count * section_count) + 1,
   j |-> (((n - 1) \div section_count) % session_count) + 1,
   k |-> ((n - 1) % section_count) + 1]

ProgressEvent(status, progress) == [status |-> status, progress |-> progress]

\* a last event of a rejected course without the error key
FailureEventWithoutError == ProgressEvent("Error: Invalid course structure", 100)

FailureEvent ==
  [status |-> "Error: Invalid course structure", progress |-> 100,
   error |-> "Failed to generate valid course structure"]

CompleteEvent(c) ==
  [status |-> "Course generation complete", progress |-> 100, course_state |-> c]

\* a generator that yields the Complete event whatever the validator returned
TerminalEventUnvalidated(c) == CompleteEvent(c)

\* the event that follows validation
TerminalEvent(c) ==
  IF ~validate_course_structure(c) THEN FailureEvent ELSE CompleteEvent(c)

\* section["content"] = await generate_section_content(section_prompt)
WithContent(c, p, text) ==
  [c EXCEPT !.modules[p.m].sessions[p.j].sections[p.k].content = text]

\* session["assessment"] = await generate_session_assessment(...)
WithAssessment(c, p, assessment) ==
  [c EXCEPT !.modules[p.m].sessions[p.j] = [assessment |-> assessment] @@ @]

\* the section is the last one of the inner loop over its session
LastOfSession(c, p) == p.k = Len(c.modules[p.m].sessions[p.j].sections)

\* what one llm.ainvoke call of a run can do
Outcomes == {Ok(greply[1]), Fail("backend down")}

Raised(o) == IF o.ok THEN 0 ELSE 1

\* the generator resumes after the yield for section n: the call for the
\* section's content and, after the last section of a session, the call for
\* the session's assessment, with the outcomes o1 and o2
Resumed(c, p, o1, o2) ==
  IF LastOfSession(c, p)
  THEN WithAssessment(WithContent(c, p, generate_section_content(o1)), p,
                      generate_session_assessment(o2))
  ELSE WithContent(c, p, generate_section_content(o1))

\* the calls of Resumed are counted, those that raised against MaxFailures
CallsCounted(c, p, o1, o2) ==
  IF LastOfSession(c, p)
  THEN /\ gfails + Raised(o1) + Raised(o2) <= MaxFailures
       /\ gfails' = gfails + Raised(o1) + Raised(o2)
       /\ gcalls' = gcalls + 2
  ELSE /\ o2 = o1
       /\ gfails + Raised(o1) <= MaxFailures
       /\ gfails' = gfails + Raised(o1)
       /\ gcalls' = gcalls + 1

At(at, n) == [at |-> at, n |-> n]

SectionEvent(c, n) ==
  ProgressEvent("Generating content for section "
                  \o c.modules[SectionPlace(n).m].sessions[SectionPlace(n).j]
                       .sections[SectionPlace(n).k].section_number,
                SectionProgress(n, TotalSections(c)))

(***************************************************************************)
(* app.py: the SessionState object, the stores it owns and the handlers of *)
(* the interface.  Indexes are those of Python (the first module is 0).    *)
(***************************************************************************)
MaxAppModules == 2
MaxAppSessions == 2
MaxAppQuestions == 2

\* the ids of the course files: one a course was stored under before the
\* program started, one save_course makes from the topic and the clock
CourseIds == {"stored_course", "async_io_1"}

\* SessionState.__init__: current_question_idx is not an attribute yet
NewSessionState ==
  [course |-> None, course_id |-> None, current_module_idx |-> 0,
   current_session_idx |-> 0, show_assessment |-> FALSE,
   current_question_idx |-> None]

\* f"{module_idx}_{session_idx}"
SessionKey(module_idx, session_idx) == ToString(module_idx) \o "_" \o ToString(session_idx)

\* the dict load_progress returns for a course without a progress file and
\* create_new_progress stores (last_updated, a clock reading, is left out)
DefaultProgress(course_id) ==
  [course_id |-> course_id, current_module |-> 0, current_session |-> 0,
   completed_sessions |-> <<>>, assessment_scores |-> {}]

load_progress(files, course_id) ==
  IF files[course_id] = None THEN DefaultProgress(course_id) ELSE files[course_id][1]

\* the progress files after create_new_progress(course_id)
create_new_progress(files, course_id) ==
  [files EXCEPT ![course_id] = Some(DefaultProgress(course_id))]

InSeq(x, xs) == \E i \in 1..Len(xs) : xs[i] = x

\* the progress files after update_session_progress; score is None or Some
update_session_progress(files, course_id, module_idx, session_idx, completed, score) ==
  LET progress_data == load_progress(files, course_id)
      session_key == SessionKey(module_idx, session_idx)
  IN [files EXCEPT ![course_id] =
        Some([progress_data EXCEPT
                !.completed_sessions =
                   IF completed /\ ~InSeq(session_key, @) THEN Append(@, session_key) ELSE @,
                !.assessment_scores =
                   IF score # None
                   THEN {p \in @ : p[1] # session_key} \cup {<<session_key, score[1]>>}
                   ELSE @,
                !.current_module = module_idx,
                !.current_session = session_idx])]

\* what a handler leaves behind: the SessionState, the progress files and
\* the first element of the tuple it returned
Handled(s, files, status) == [state |-> s, progress |-> files, status |-> status]

IndexError == "Error: list index out of range"

\* next_session(): the default completed=True of update_session_progress
\* applies to the call at the end
next_session(s, files) ==
  IF s.course = None THEN Handled(s, files, "No active course")
  ELSE LET modules == s.course[1].modules
           m == s.current_module_idx
       IN IF m >= Len(modules) THEN Handled(s, files, IndexError)
          ELSE LET wraps == s.current_session_idx + 1 >= Len(modules[m + 1].sessions)
                   s1 == IF wraps
                         THEN [s EXCEPT !.current_module_idx = m + 1,
                                        !.current_session_idx = 0]
                         ELSE [s EXCEPT !.current_session_idx = @ + 1]
               IN IF wraps /\ s1.current_module_idx >= Len(modules)
                  THEN Handled(s1, files, "Course completed!")
                  ELSE IF s1.current_session_idx
                            >= Len(modules[s1.current_module_idx + 1].sessions)
                  THEN Handled(s1, files, IndexError)
                  ELSE Handled([s1 EXCEPT !.current_question_idx = Some(0),
                                          !.show_assessment = FALSE],
                               update_session_progress(files, s1.course_id[1],
                                  s1.current_module_idx, s1.current_session_idx,
                                  TRUE, None),
                               "Module " \o ToString(s1.current_module_idx + 1)
                                 \o ", Session " \o ToString(s1.current_session_idx + 1))

\* evaluate_answer: some correct answer occurs in the answer (the answers
\* of AppAnswers are single words, of which one occurs in another only when
\* they are equal)
evaluate_answer(answer, question) ==
  \E i \in 1..Len(question.correct_answers) : question.correct_answers[i] = answer

Feedback(answer, question) ==
  (IF evaluate_answer(answer, question) THEN "Correct! " ELSE "Incorrect. ")
    \o question.explanation

\* submit_answer(answer)
submit_answer(s, files, answer) ==
  IF s.course = None THEN Handled(s, files, "No active course")
  ELSE LET modules == s.course[1].modules
           m == s.current_module_idx
           j == s.current_session_idx
       IN IF m >= Len(modules) \/ j >= Len(modules[m + 1].sessions)
          THEN Handled(s, files, IndexError)
          ELSE IF ~s.show_assessment
          THEN Handled([s EXCEPT !.show_assessment = TRUE,
                                 !.current_question_idx = Some(0)],
                       files, "Starting assessment")
          ELSE LET questions == modules[m + 1].sessions[j + 1].assessment.questions
                   q == s.current_question_idx[1]
               IN IF q >= Len(questions) THEN Handled(s, files, IndexError)
                  ELSE IF q + 1 >= Len(questions)
                  THEN Handled([s EXCEPT !.current_question_idx = Some(q + 1)],
                               update_session_progress(files, s.course_id[1], m, j,
                                                       TRUE, Some(0)),
                               "Assessment completed!")
                  ELSE Handled([s EXCEPT !.current_question_idx = Some(q + 1)],
                               files, Feedback(answer, questions[q + 1]))

\* load_course(course_id): the indexes come from the progress file
load_course(s, courses, files, course_id) ==
  IF courses[course_id] = None THEN Handled(s, files, "Error: Course not found")
  ELSE LET progress_data == load_progress(files, course_id)
           s1 == [s EXCEPT !.course = courses[course_id],
                           !.course_id = Some(course_id),
                           !.current_module_idx = progress_data.current_module,
                           !.current_session_idx = progress_data.current_session]
           modules == courses[course_id][1].modules
       IN IF \/ s1.current_module_idx >= Len(modules)
             \/ s1.current_session_idx >= Len(modules[s1.current_module_idx + 1].sessions)
          THEN Handled(s1, files, "Error loading course: list index out of range")
          ELSE Handled(s1, files, "Loaded course: " \o courses[course_id][1].topic)

\* generate_with_status: the updates it yields for one item generate_course
\* yielded, none or one.  "status" is looked for before "error".
generate_with_status(item) ==
  IF "status" \in DOMAIN item
  THEN << [status |-> item.status,
           progress |-> IF "progress" \in DOMAIN item THEN item.progress ELSE 0,
           course_state |-> IF "course_state" \in DOMAIN item
                            THEN Some(item.course_state) ELSE None,
           error |-> None] >>
  ELSE IF "error" \in DOMAIN item
  THEN << [status |-> "Error", progress |-> 0, course_state |-> None,
           error |-> Some(item.error)] >>
  ELSE <<>>

\* format_session_content, of which the heading line is kept
format_session_content(module, session_num) ==
  "# " \o module.title \o " - Session " \o ToString(session_num)

\* what one pass of the loop of on_generate leaves behind
Passed(s, courses, files, out, returned) ==
  [state |-> s, courses |-> courses, progress |-> files, out |-> out,
   returned |-> returned]

\* the course id save_course returns
SavedId == "async_io_1"

\* one pass of the loop of on_generate, for the update u; content is the
\* local variable of that name
on_generate(u, s, courses, files, content) ==
  LET status_text == u.status \o " (" \o ToString(u.progress) \o "%)"
  IN IF u.error # None /\ u.error[1] # ""
     THEN Passed(s, courses, files, <<"Error: " \o u.error[1], "">>, TRUE)
     ELSE IF /\ u.progress = 100
             /\ u.course_state # None
             /\ u.course_state[1].modules # <<>>
     THEN Passed([s EXCEPT !.course = u.course_state, !.course_id = Some(SavedId)],
                 [courses EXCEPT ![SavedId] = u.course_state],
                 create_new_progress(files, SavedId),
                 <<status_text,
                   IF u.course_state[1].modules[1].sessions # <<>>
                   THEN format_session_content(u.course_state[1].modules[1], 1)
                   ELSE content>>,
                 FALSE)
     ELSE Passed(s, courses, files, <<status_text, content>>, FALSE)

\* generate_course yields item: generate_with_status turns it into an
\* update and on_generate handles the update before the generator is
\* resumed.  Once on_generate has returned nothing is resumed.
Deliver(item) ==
  /\ aReply = None
  /\ IF generate_with_status(item) = <<>> THEN UNCHANGED appVars
     ELSE \E u \in {generate_with_status(item)[1]} :
            \E r \in {on_generate(u, aState[1], aCourses[1], aProgress[1],
                                  IF aShown = <<>> THEN "" ELSE aShown[Len(aShown)][2])} :
              /\ aUpdates' = Append(aUpdates, u)
              /\ aShown' = Append(aShown, r.out)
              /\ aState' = Some(r.state)
              /\ aCourses' = Some(r.courses)
              /\ aProgress' = Some(r.progress)
              /\ aReply' = IF r.returned THEN Some(r.out[1]) ELSE None

\* the program after `state = SessionState()`, with the course files found
AppStarted(courses) ==
  /\ aState = Some(NewSessionState)
  /\ aCourses = Some(courses)
  /\ aProgress = Some([id \in CourseIds |-> None])
  /\ aReply = None
  /\ aUpdates = <<>>
  /\ aShown = <<>>

NoCourses == [id \in CourseIds |-> None]

GenInit ==
  /\ gpc = At("start", 0)
  /\ greply \in {Some(t) : t \in StubReplies}
  /\ course = None
  /\ events = <<>>
  /\ gcalls = 0
  /\ gfails = 0
  /\ gvalid = None
  /\ WorkflowIdle
  /\ ScIdle
  /\ ValIdle
  /\ ParseIdle
  /\ CfsIdle
  /\ RunsIdle
  /\ AppStarted(NoCourses)

\* the first step of the generator: up to the first yield
GenStart ==
  /\ gpc.at = "start"
  /\ events' = Append(events, ProgressEvent("Creating course outline...", 10))
  /\ Deliver(ProgressEvent("Creating course outline...", 10))
  /\ gpc' = At("outline", 0)
  /\ UNCHANGED <<greply, course, gcalls, gfails, gvalid, wfVars, scVars, valVars, parseVars, cfsVars, runVars>>

\* the course dict is created after the first yield; one pass of the loop
\* that builds the modules, up to its yield
GenModule ==
  /\ gpc.at \in {"outline", "module"}
  /\ gpc.n < module_count
  /\ course' = IF course = None
               THEN Some([topic |-> "Async IO", language |-> "English",
                          modules |-> <<NewModule(1)>>])
               ELSE Some([course[1] EXCEPT
                            !.modules = Append(@, NewModule(gpc.n + 1))])
  /\ events' = Append(events,
                      ProgressEvent("Generated module " \o ToString(gpc.n + 1)
                                      \o " structure", 20 + gpc.n * 20))
  /\ Deliver(ProgressEvent("Generated module " \o ToString(gpc.n + 1)
                             \o " structure", 20 + gpc.n * 20))
  /\ gpc' = At("module", gpc.n + 1)
  /\ UNCHANGED <<greply, gcalls, gfails, gvalid, wfVars, scVars, valVars, parseVars, cfsVars, runVars>>

\* after the last module: the count of the sections and the first yield of
\* the content loop
GenFirstSection ==
  /\ gpc.at = "module"
  /\ gpc.n = module_count
  /\ events' = Append(events, SectionEvent(course[1], 1))
  /\ Deliver(SectionEvent(course[1], 1))
  /\ gpc' = At("section", 1)
  /\ UNCHANGED <<greply, course, gcalls, gfails, gvalid, wfVars, scVars, valVars, parseVars, cfsVars, runVars>>

\* the content loop from the yield for section gpc.n to the yield for the next
GenSection ==
  /\ gpc.at = "section"
  /\ gpc.n < TotalSections(course[1])
  /\ \E o1 \in Outcomes, o2 \in Outcomes :
       /\ CallsCounted(course[1], SectionPlace(gpc.n), o1, o2)
       /\ course' = Some(Resumed(course[1], SectionPlace(gpc.n), o1, o2))
  /\ events' = Append(events, SectionEvent(course[1], gpc.n + 1))
  /\ Deliver(SectionEvent(course[1], gpc.n + 1))
  /\ gpc' = At("section", gpc.n + 1)
  /\ UNCHANGED <<greply, gvalid, wfVars, scVars, valVars, parseVars, cfsVars, runVars>>

\* from the yield for the last section: its calls, the validation, and the
\* yield of the event that says how the run ended
GenValidate ==
  /\ gpc.at = "section"
  /\ gpc.n = TotalSections(course[1])
  /\ \E o1 \in Outcomes, o2 \in Outcomes :
       /\ CallsCounted(course[1], SectionPlace(gpc.n), o1, o2)
       /\ course' = Some(Resumed(course[1], SectionPlace(gpc.n), o1, o2))
  /\ gvalid' = Some(validate_course_structure(course'[1]))
  /\ events' = Append(events, TerminalEvent(course'[1]))
  /\ Deliver(TerminalEvent(course'[1]))
  /\ gpc' = At("terminal", gpc.n)
  /\ UNCHANGED <<greply, wfVars, scVars, valVars, parseVars, cfsVars, runVars>>

\* resumed after that yield the generator returns: the iteration is exhausted
GenFinish ==
  /\ gpc.at = "terminal"
  /\ gpc' = At("done", gpc.n)
  /\ UNCHANGED <<greply, course, events, gcalls, gfails, gvalid, wfVars, scVars, valVars, parseVars, cfsVars, runVars, appVars>>

GenNext ==
  \/ GenStart
  \/ GenModule
  \/ GenFirstSection
  \/ GenSection
  \/ GenValidate
  \/ GenFinish

GenSpec == GenInit /\ [][GenNext]_vars

(***************************************************************************)
(* validate_course_structure as a function: applied once to a course drawn *)
(* from dicts of lists of dicts.  A course is regular (every module has    *)
(* the same number of sessions, every session the same number of sections, *)
(* every section the same keys) except for one odd place at its end.       *)
(***************************************************************************)
MaxCourseModules == 6
MaxCourseSessions == 6
MaxCourseSections == 5

\* the text of a section that has one
SectionText == << Line("", <<"Body">>) >>

\* the keys a section dict can carry: generate_course stores the text under
\* "content", the validator reads "section_content"
SectionKinds ==
  {"content", "empty_content", "section_content", "empty_section_content", "both"}

SectionOfKind(kind) ==
  CASE kind = "content" -> [title |-> "Section", content |-> SectionText]
    [] kind = "empty_content" -> [title |-> "Section", content |-> <<>>]
    [] kind = "section_content" -> [title |-> "Section", section_content |-> SectionText]
    [] kind = "empty_section_content" -> [title |-> "Section", section_content |-> <<>>]
    [] OTHER -> [title |-> "Section", content |-> SectionText,
                 section_content |-> SectionText]

SessionOf(nk, kind) ==
  [title |-> "Session", sections |-> [k \in 1..nk |-> SectionOfKind(kind)]]

ModuleOf(ns, nk, kind) ==
  [title |-> "Module", sessions |-> [j \in 1..ns |-> SessionOf(nk, kind)]]

\* what is odd about the last module of a course, its last session or that
\* session's last section
Oddities ==
  {[what |-> "nothing"], [what |-> "no_modules_key"], [what |-> "no_sessions_key"],
   [what |-> "no_sections_key"]}
    \cup {[what |-> "sessions", n |-> n] : n \in 0..MaxCourseSessions}
    \cup {[what |-> "sections", n |-> n] : n \in 0..MaxCourseSections}
    \cup {[what |-> "kind", kind |-> k] : k \in SectionKinds}

OddSession(nk, kind, odd) ==
  CASE odd.what = "no_sections_key" -> [title |-> "Session"]
    [] odd.what = "sections" -> SessionOf(odd.n, kind)
    [] odd.what = "kind" /\ nk > 0 ->
         [title |-> "Session",
          sections |-> [k \in 1..nk |->
                          SectionOfKind(IF k = nk THEN odd.kind ELSE kind)]]
    [] OTHER -> SessionOf(nk, kind)

OddModule(ns, nk, kind, odd) ==
  CASE odd.what = "no_sessions_key" -> [title |-> "Module"]
    [] odd.what = "sessions" -> ModuleOf(odd.n, nk, kind)
    [] odd.what \in {"no_sections_key", "sections", "kind"} /\ ns > 0 ->
         [title |-> "Module",
          sessions |-> [j \in 1..ns |->
                          IF j = ns THEN OddSession(nk, kind, odd)
                          ELSE SessionOf(nk, kind)]]
    [] OTHER -> ModuleOf(ns, nk, kind)

CourseOf(nm, ns, nk, kind, odd) ==
  IF odd.what = "no_modules_key" THEN [title |-> "Course"]
  ELSE [title |-> "Course",
        modules |-> [i \in 1..nm |->
                       IF i = nm THEN OddModule(ns, nk, kind, odd)
                       ELSE ModuleOf(ns, nk, kind)]]

ValInputs ==
  {CourseOf(nm, ns, nk, kind, odd) :
     nm \in 0..MaxCourseModules, ns \in 0..MaxCourseSessions,
     nk \in 0..MaxCourseSections, kind \in SectionKinds, odd \in Oddities}

ValInit ==
  /\ vCourse \in {Some(c) : c \in ValInputs}
  /\ vResult = None
  /\ WorkflowIdle
  /\ ScIdle
  /\ GenIdle
  /\ ParseIdle
  /\ CfsIdle
  /\ RunsIdle
  /\ AppIdle

\* the call: the function catches every Exception, so it always returns a bool
ValApply ==
  /\ vResult = None
  /\ vResult' = Some(validate_course_structure(vCourse[1]))
  /\ UNCHANGED <<vCourse, wfVars, scVars, genVars, parseVars, cfsVars, runVars, appVars>>

ValNext == ValApply

ValSpec == ValInit /\ [][ValNext]_vars

(***************************************************************************)
(* The properties.                                                         *)
(***************************************************************************)
\* the target the transition rules give a stage when no flag ends the run
StageTarget(stage) ==
  CASE stage = "start" -> "create_outline"
    [] stage = "outline_created" -> "create_modules"
    [] stage = "modules_created" -> "create_sessions"
    [] stage = "sessions_created" -> "finalize"
    [] OTHER -> "end"

\* C1: should_continue returns "end" whenever retries >= 5, or error is set
\* (holds a string, whichever string), or completed is true; otherwise it
\* returns the target of the stage, and "end" for every other stage value.
C1_ShouldContinueTable ==
  scResult # None =>
    scResult[1] = IF \/ scState[1].retries >= 5
                     \/ scState[1].error # None
                     \/ scState[1].completed
                  THEN "end"
                  ELSE StageTarget(scState[1].current_stage)

NodeOrder ==
  <<"start", "create_outline", "create_modules", "create_sessions", "finalize", "end">>

Rank(n) == CHOOSE i \in 1..Len(NodeOrder) : NodeOrder[i] = n

\* a session dict that create_session_content returned (a stub has no assessment)
Expanded(session) == "assessment" \in DOMAIN session

AllExpanded(modules) ==
  \A i \in 1..Len(modules) :
    \A j \in 1..Len(modules[i].sessions) : Expanded(modules[i].sessions[j])

\* C2: the nodes of a run execute strictly in the order start, create_outline,
\* create_modules, create_sessions, finalize, end, so each runs at most once;
\* each of the five stage nodes runs only after all the nodes before it (end
\* also closes a run cut short); create_modules is entered only with
\* course_outline set, create_sessions only with modules set, finalize only
\* with every session of every module expanded.
C2_StagesInOrder ==
  /\ \A i \in 1..(Len(ran) - 1) : Rank(ran[i]) < Rank(ran[i + 1])
  /\ \A i \in 1..Len(ran) : ran[i] # "end" => ran[i] = NodeOrder[i]
  /\ node = "create_modules" => st.course_outline # None
  /\ node = "create_sessions" => st.modules # None
  /\ node = "finalize" => st.modules # None /\ AllExpanded(st.modules[1])

\* C2 witness: finalize is about to run on a course with expanded sessions
C2_Witness ==
  /\ node = "finalize"
  /\ ran = SubSeq(NodeOrder, 1, 4)
  /\ \E i \in 1..Len(st.modules[1]) : Len(st.modules[1][i].sessions) > 0

\* C3: once a stage function has failed (error holds what it recorded), the
\* next node is end, completed is false, and after end the status is
\* "Course generation failed: <error>".
C3_FailureEndsRun ==
  (ran # <<>> /\ st.error # None) =>
    /\ node \in {"end", "finished"}
    /\ ~st.completed
    /\ node = "finished" => st.status = "Course generation failed: " \o st.error[1]

\* C4: the workflow has completed = true only with a course that
\* validate_course_structure accepts.
C4_CompleteOnlyIfValid ==
  (ran # <<>> /\ st.completed) =>
    /\ st.course # None
    /\ validate_course_structure(st.course[1])

LastEvent == events[Len(events)]

\* C5: with a backend that never raises and answers every prompt with one
\* non-empty text, the exhausted run ends with a Complete event (progress 100,
\* course_state present) whose document validate_course_structure accepts.
C5_StubRunCompletes ==
  (gpc.at = "done" /\ gfails = 0 /\ greply[1] # <<>>) =>
    /\ "course_state" \in DOMAIN LastEvent
    /\ LastEvent.progress = 100
    /\ validate_course_structure(LastEvent.course_state)

\* C6: the progress of the events of a run never decreases from one event to
\* the next.
C6_ProgressMonotone ==
  \A i \in 1..(Len(events) - 1) : events[i].progress <= events[i + 1].progress

IsComplete(e) == "course_state" \in DOMAIN e

IsFailure(e) == "error" \in DOMAIN e

\* C7: an exhausted run has yielded exactly one terminal event, a Complete
\* (with course_state) or a Failure (with error) and not both; it has
\* progress 100, it is the last event, and no event before it has an error
\* or a course_state.
C7_OneTerminalEvent ==
  gpc.at = "done" =>
    /\ events # <<>>
    /\ IsComplete(LastEvent) # IsFailure(LastEvent)
    /\ LastEvent.progress = 100
    /\ \A i \in 1..(Len(events) - 1) : ~IsComplete(events[i]) /\ ~IsFailure(events[i])

\* C7 witness: an exhausted run whose last event is a Failure
C7_Witness ==
  /\ gpc.at = "done"
  /\ IsFailure(LastEvent)
  /\ Len(events) > 1

\* C8: every run of the workflow reaches the end node and returns, and no more
\* than the five stage nodes run before the end node.
C8_WorkflowTerminates ==
  /\ <>(node = "finished" /\ ran[Len(ran)] = "end")
  /\ [](Len(SelectSeq(ran, LAMBDA n : n # "end")) <= 5)

\* C8 witness: the end node has run after all five stage nodes
C8_Witness ==
  /\ node = "finished"
  /\ ran = NodeOrder

\* 1 outline call, 2 calls per module, 2 calls per session
ExpectedCalls(modules) ==
  1 + SumSeq([i \in 1..Len(modules) |-> 2 + Len(modules[i].sessions) * 2])

\* every module has S sessions
Uniform(modules, S) == \A i \in 1..Len(modules) : Len(modules[i].sessions) = S

\* C9: a run that went from start through finalize (so no backend call
\* raised) made 1 call for the outline, 2 for each module kept and 2 for each
\* session parsed: 1 + M * (2 + S * 2) when each of the M modules has S
\* sessions.
C9_WorkflowCalls ==
  (ran # <<>> /\ st.completed) =>
    /\ calls = ExpectedCalls(st.modules[1])
    /\ \A S \in 0..calls :
         Uniform(st.modules[1], S) => calls = 1 + Len(st.modules[1]) * (2 + S * 2)

\* C9 witness: a completed run over an outline cut to its first five modules,
\* each with one session
C9_Witness ==
  /\ node = "finished"
  /\ st.completed
  /\ Len(st.modules[1]) = MaxModulesKept
  /\ Uniform(st.modules[1], 1)
  /\ calls = 21

\* C10: with a backend that never raises, an exhausted run of generate_course
\* has made 1 + modules * (2 + sessions * 2) calls, for the modules of its
\* course and the sessions of each.
C10_GeneratorCalls ==
  (gpc.at = "done" /\ gfails = 0) =>
    gcalls = 1 + Len(course[1].modules) * (2 + Len(course[1].modules[1].sessions) * 2)

\* C11: once a backend call of a run of generate_course has raised, the run
\* makes no further backend call, and it ends with a Failure event whose error
\* is the error the backend raised.
C11_BackendFailureEndsRun ==
  /\ [][gfails > 0 => gcalls' = gcalls]_vars
  /\ []((gpc.at = "done" /\ gfails > 0) =>
          IsFailure(LastEvent) /\ LastEvent.error = "backend down")

\* C12: when validate_course_structure has rejected the course, the last event
\* is a Failure (progress 100, an error, no course_state) and no event of the
\* run carries a course_state.
C12_RejectedCourseDiscarded ==
  (gpc.at \in {"terminal", "done"} /\ gvalid = Some(FALSE)) =>
    /\ IsFailure(LastEvent)
    /\ LastEvent.error # ""
    /\ LastEvent.progress = 100
    /\ \A i \in 1..Len(events) : ~IsComplete(events[i])

\* C12 witness: the validator has just rejected the course and the generator
\* is suspended at the yield of its last event
C12_Witness ==
  /\ gpc.at = "terminal"
  /\ gvalid = Some(FALSE)
  /\ Len(events) = 1 + module_count + TotalSections(course[1]) + 1

(***************************************************************************)
(* The parsers as functions: each is applied once to a text drawn from the *)
(* sequences of at most MaxTextLines lines of a small alphabet of the      *)
(* lines it tells apart.                                                   *)
(***************************************************************************)
MaxTextLines == 4

Texts(alphabet) == UNION {[1..n -> alphabet] : n \in 0..MaxTextLines}

\* lines of an outline reply: module headings with ":" and with ".", a
\* "####" line and a "##" line that are no module headings, field headings,
\* text, a bullet, a bold line and a blank line
ModuleAlphabet ==
  {Line("###", <<"Module", "1", ":", "Intro">>),
   Line("#", <<"Module", "2", ".", "Basics">>),
   Line("####", <<"Module", "3", ":", "Extra">>),
   Line("##", <<"Overview">>),
   Line("####", <<"Description", "and", "Key", "Points", ":">>),
   Line("####", <<"Learning", "Objectives", ":">>),
   Line("", <<"Async", "basics">>),
   Line("* ", <<"Key", "point">>),
   Line("**", <<"Important", "**">>),
   BlankLine}

ModInit ==
  /\ pText \in {Some(t) : t \in Texts(ModuleAlphabet)}
  /\ pResult = None
  /\ WorkflowIdle
  /\ ScIdle
  /\ GenIdle
  /\ ValIdle
  /\ CfsIdle
  /\ RunsIdle
  /\ AppIdle

ModApply ==
  /\ pResult = None
  /\ pResult' = Some(parse_module_outline(pText[1]))
  /\ UNCHANGED <<pText, wfVars, scVars, genVars, valVars, cfsVars, runVars, appVars>>

ModNext == ModApply

ModSpec == ModInit /\ [][ModNext]_vars

\* lines of a section reply: two top-level headings, a "##" heading, two
\* lines of text and a blank line
SectionAlphabet ==
  {Line("#", <<"Basics">>),
   Line("#", <<"Practice">>),
   Line("##", <<"Details">>),
   Line("", <<"Coroutines", "yield">>),
   Line("", <<"Tasks", "run">>),
   BlankLine}

SecInit ==
  /\ pText \in {Some(t) : t \in Texts(SectionAlphabet)}
  /\ pResult = None
  /\ WorkflowIdle
  /\ ScIdle
  /\ GenIdle
  /\ ValIdle
  /\ CfsIdle
  /\ RunsIdle
  /\ AppIdle

\* the call returns: no operation of the loop raises on a str
SecApply ==
  /\ pResult = None
  /\ pResult' = Some(parse_section_content(pText[1]))
  /\ UNCHANGED <<pText, wfVars, scVars, genVars, valVars, cfsVars, runVars, appVars>>

SecNext == SecApply

SecSpec == SecInit /\ [][SecNext]_vars

\* lines of a session outline reply: two session headers, a header without
\* a number, a header without a title, two sub-field lines, two item lines
SessionAlphabet ==
  {Line("**", <<"Session", Dotted(1, 1), ":", "Intro">>),
   Line("**", <<"Session", Dotted(1, 2), ":", "Loops">>),
   Line("**", <<"Session", "X", ":", "Extra">>),
   Line("**", <<"Session", Dotted(1, 3), ":">>),
   Line("* ", <<"Description", ":", "covers", "basics">>),
   Line("* ", <<"Key", "Concepts", ":">>),
   Line("+", <<"concept", "one">>),
   Line("-", <<"more", "detail">>)}

SesInit ==
  /\ pText \in {Some(t) : t \in Texts(SessionAlphabet)}
  /\ pResult = None
  /\ WorkflowIdle
  /\ ScIdle
  /\ GenIdle
  /\ ValIdle
  /\ CfsIdle
  /\ RunsIdle
  /\ AppIdle

\* the call returns: no operation of the loop raises on a str
SesApply ==
  /\ pResult = None
  /\ pResult' = Some(parse_session_outline(pText[1]))
  /\ UNCHANGED <<pText, wfVars, scVars, genVars, valVars, cfsVars, runVars, appVars>>

SesNext == SesApply

SesSpec == SesInit /\ [][SesNext]_vars

\* lines of an assessment reply: two question lines (one with option
\* markers in it), an option line, an answer line, a "Correct:" line, an
\* explanation line and a blank line
AssessmentAlphabet ==
  {Line("1.", <<"What", "is", "X", "?">>),
   Line("2.", <<"Pick", "a)", "or", "b)">>),
   Line("", <<"a)", "foo">>),
   Line("", <<"Answer", ":", "a">>),
   Line("", <<"Correct", ":", "b">>),
   Line("", <<"Explanation", ":", "because">>),
   BlankLine}

AsmInit ==
  /\ pText \in {Some(t) : t \in Texts(AssessmentAlphabet)}
  /\ pResult = None
  /\ WorkflowIdle
  /\ ScIdle
  /\ GenIdle
  /\ ValIdle
  /\ CfsIdle
  /\ RunsIdle
  /\ AppIdle

\* the call returns the dict of questions and answers: no operation of the
\* loop raises on a str
AsmApply ==
  /\ pResult = None
  /\ pResult' = Some(parse_assessment_content(pText[1]))
  /\ UNCHANGED <<pText, wfVars, scVars, genVars, valVars, cfsVars, runVars, appVars>>

AsmNext == AsmApply

AsmSpec == AsmInit /\ [][AsmNext]_vars

(***************************************************************************)
(* The four parsers on one reply: any of them is called with a text of at  *)
(* most MaxNoiseLines lines, among them lines that open a record for one   *)
(* parser and are noise for the others.  The result is kept with the name  *)
(* of the parser that returned it.  Each call returns: on a str, every     *)
(* index and split of the four loops is guarded by the test before it.     *)
(***************************************************************************)
MaxNoiseLines == 3

NoiseAlphabet ==
  {Line("###", <<"Module", "1", ":", "Intro">>),
   Line("#", <<"Basics">>),
   Line("**", <<"Session", Dotted(1, 1), ":", "Intro">>),
   Line("1.", <<"What", "is", "X", "?">>),
   Line("", <<"Answer", ":", "a">>),
   Line("* ", <<"Description", ":", "covers", "basics">>),
   Line("+", <<"concept", "one">>),
   Line("####", <<"Description", "and", "Key", "Points", ":">>),
   Line("", <<"Async", "basics">>),
   BlankLine}

ParsersInit ==
  /\ pText \in {Some(t) : t \in UNION {[1..n -> NoiseAlphabet] : n \in 0..MaxNoiseLines}}
  /\ pResult = None
  /\ WorkflowIdle
  /\ ScIdle
  /\ GenIdle
  /\ ValIdle
  /\ CfsIdle
  /\ RunsIdle
  /\ AppIdle

ParsedBy(parser, value) == Some([parser |-> parser, value |-> value])

CallModuleParser ==
  /\ pResult = None
  /\ pResult' = ParsedBy("parse_module_outline", parse_module_outline(pText[1]))
  /\ UNCHANGED <<pText, wfVars, scVars, genVars, valVars, cfsVars, runVars, appVars>>

CallSectionParser ==
  /\ pResult = None
  /\ pResult' = ParsedBy("parse_section_content", parse_section_content(pText[1]))
  /\ UNCHANGED <<pText, wfVars, scVars, genVars, valVars, cfsVars, runVars, appVars>>

CallSessionParser ==
  /\ pResult = None
  /\ pResult' = ParsedBy("parse_session_outline", parse_session_outline(pText[1]))
  /\ UNCHANGED <<pText, wfVars, scVars, genVars, valVars, cfsVars, runVars, appVars>>

CallAssessmentParser ==
  /\ pResult = None
  /\ pResult' = ParsedBy("parse_assessment_content", parse_assessment_content(pText[1]))
  /\ UNCHANGED <<pText, wfVars, scVars, genVars, valVars, cfsVars, runVars, appVars>>

ParsersNext ==
  \/ CallModuleParser
  \/ CallSectionParser
  \/ CallSessionParser
  \/ CallAssessmentParser

ParsersSpec == ParsersInit /\ [][ParsersNext]_vars

(***************************************************************************)
(* create_course_from_state, called once with a state dict that holds a    *)
(* course plan (or none), a course outline (or none) and the errors        *)
(* recorded so far.  The two helpers it awaits, generate_module_content    *)
(* and generate_session_content, are names the module neither defines nor  *)
(* imports: looking one up raises NameError before anything is awaited, so *)
(* the call runs to its end in one step.  The first statement of a         *)
(* module's try block is the lookup of generate_module_content, which is   *)
(* why the session loop below it is never entered.                         *)
(***************************************************************************)
MaxPlanModules == 3
MaxPlanSessions == 2

\* str(e) of the NameError a lookup of an undefined global raises
NameErrorOf(name) == "name '" \o name \o "' is not defined"

PlanModule(i, n) ==
  [title |-> "Module " \o ToString(i),
   sessions |-> [j \in 1..n |-> [title |-> "Session " \o ToString(j)]]]

PlanOf(counts) == [modules |-> [i \in 1..Len(counts) |-> PlanModule(i, counts[i])]]

CfsInputs ==
  { [topic |-> "Async IO", language |-> "English", course_plan |-> plan,
     course_outline |-> outline, errors |-> errors, status |-> "Initializing",
     total_modules |-> 0, current_module_number |-> 0] :
    plan \in {None} \cup {Some(PlanOf(counts)) :
                             counts \in UNION {[1..n -> 0..MaxPlanSessions] :
                                                 n \in 0..MaxPlanModules}},
    outline \in {None, Some([description |-> "About async IO", prerequisites |-> <<>>])},
    errors \in {<<>>, <<"earlier error">>} }

\* one pass of the module loop, module_index = i - 1; acc is the state dict
\* and the helper calls tried so far
ModulePass(acc, i) ==
  [state |-> [acc.state EXCEPT
                !.current_module_number = i - 1,
                !.status = "[Module " \o ToString(i) \o "/"
                             \o ToString(acc.state.total_modules)
                             \o "] Generating content for Module: "
                             \o acc.state.course_plan[1].modules[i].title,
                !.errors = Append(@, "Failed to generate module " \o ToString(i) \o ": "
                                       \o NameErrorOf("generate_module_content"))],
   tried |-> Append(acc.tried, "generate_module_content")]

RECURSIVE ModulePasses(_, _, _)
ModulePasses(acc, i, n) ==
  IF i > n THEN acc ELSE ModulePasses(ModulePass(acc, i), i + 1, n)

\* "Create the final course structure": state["course_outline"] raises
\* KeyError when the state has no outline
FinalCourse(acc) ==
  IF acc.state.course_outline = None
  THEN [raised |-> TRUE, msg |-> "'course_outline'", state |-> acc.state, tried |-> acc.tried]
  ELSE [raised |-> FALSE,
        val |-> [topic |-> acc.state.topic, language |-> acc.state.language,
                 description |-> acc.state.course_outline[1].description,
                 prerequisites |-> acc.state.course_outline[1].prerequisites,
                 modules |-> acc.state.course_plan[1].modules],
        state |-> acc.state, tried |-> acc.tried]

create_course_from_state(state) ==
  IF state.course_plan = None
  THEN [raised |-> TRUE, msg |-> "No course plan found in state", state |-> state,
        tried |-> <<>>]
  ELSE The({FinalCourse(acc) :
              acc \in {ModulePasses(
                         [state |-> [state EXCEPT !.total_modules =
                                                     Len(state.course_plan[1].modules)],
                          tried |-> <<>>],
                         1, Len(state.course_plan[1].modules))}})

CfsInit ==
  /\ cfsState \in {Some(x) : x \in CfsInputs}
  /\ cfsTried = <<>>
  /\ cfsResult = None
  /\ WorkflowIdle
  /\ ScIdle
  /\ GenIdle
  /\ ValIdle
  /\ ParseIdle
  /\ RunsIdle
  /\ AppIdle

\* the call: the caller's dict is changed in place
CfsCall ==
  /\ cfsResult = None
  /\ \E r \in {create_course_from_state(cfsState[1])} :
       /\ cfsState' = Some(r.state)
       /\ cfsTried' = r.tried
       /\ cfsResult' = Some(IF r.raised THEN [raised |-> TRUE, msg |-> r.msg]
                            ELSE [raised |-> FALSE, val |-> r.val])
  /\ UNCHANGED <<wfVars, scVars, genVars, valVars, parseVars, runVars, appVars>>

CfsNext == CfsCall

CfsSpec == CfsInit /\ [][CfsNext]_vars

(***************************************************************************)
(* Two runs of the session stage in one process, interleaved where they    *)
(* await llm.ainvoke.  A run calls create_session_content once per session *)
(* stub; every call starts by fetching the module global _current_state,   *)
(* setting its current_stage and storing it back, and then awaits the      *)
(* backend twice (content, assessment).  Between two awaits a run is not   *)
(* interrupted.                                                            *)
(***************************************************************************)
MaxRunSessions == 2

Runs == {1, 2}

RunAt(at, j, n) == [at |-> at, j |-> j, n |-> n]

RunsInit ==
  /\ rpc \in {Some(f) : f \in [Runs -> {RunAt("ready", 0, n) : n \in 0..MaxRunSessions}]}
  /\ rwriters = {}
  /\ WorkflowIdle
  /\ ScIdle
  /\ GenIdle
  /\ ValIdle
  /\ ParseIdle
  /\ CfsIdle
  /\ AppIdle

\* run r enters create_session_content for its session j: the statements up
\* to the first await
EnterSession(r, j) ==
  /\ current_state' = MarkSessionGeneration(current_state)
  /\ rwriters' = rwriters \cup {r}
  /\ rpc' = Some([rpc[1] EXCEPT ![r] = RunAt("content", j, @.n)])

\* the session stage of run r starts: a run without session stubs is done
RunStage(r) ==
  /\ rpc[1][r].at = "ready"
  /\ IF rpc[1][r].n = 0
     THEN /\ rpc' = Some([rpc[1] EXCEPT ![r] = RunAt("done", 0, 0)])
          /\ UNCHANGED <<current_state, rwriters>>
     ELSE EnterSession(r, 1)
  /\ UNCHANGED <<node, st, ran, calls, scVars, genVars, valVars, parseVars, cfsVars, appVars>>

\* the content call of run r returns or raises
RunContent(r) ==
  /\ rpc[1][r].at = "content"
  /\ \E ok \in BOOLEAN :
       rpc' = Some([rpc[1] EXCEPT ![r] = RunAt(IF ok THEN "assessment" ELSE "failed",
                                               @.j, @.n)])
  /\ UNCHANGED <<rwriters, wfVars, scVars, genVars, valVars, parseVars, cfsVars, appVars>>

\* the assessment call of run r returns or raises; after the last session
\* the stage is done, otherwise the next create_session_content is entered
RunAssessment(r) ==
  /\ rpc[1][r].at = "assessment"
  /\ \E ok \in BOOLEAN :
       IF ~ok
       THEN /\ rpc' = Some([rpc[1] EXCEPT ![r] = RunAt("failed", @.j, @.n)])
            /\ UNCHANGED <<current_state, rwriters>>
       ELSE IF rpc[1][r].j = rpc[1][r].n
       THEN /\ rpc' = Some([rpc[1] EXCEPT ![r] = RunAt("done", @.j, @.n)])
            /\ UNCHANGED <<current_state, rwriters>>
       ELSE EnterSession(r, rpc[1][r].j + 1)
  /\ UNCHANGED <<node, st, ran, calls, scVars, genVars, valVars, parseVars, cfsVars, appVars>>

RunsNext ==
  \/ \E r \in Runs : RunStage(r)
  \/ \E r \in Runs : RunContent(r)
  \/ \E r \in Runs : RunAssessment(r)

RunsSpec == RunsInit /\ [][RunsNext]_vars

\* the session and section checks of the validator, read off a course whose
\* modules are listed: 3..5 sessions in every module, 2..4 sections in every
\* session, a non-empty text under the key the validator reads
SessionsAndSectionsPass(c) ==
  \A i \in 1..Len(c.modules) :
    /\ "sessions" \in DOMAIN c.modules[i]
    /\ Len(c.modules[i].sessions) \in 3..5
    /\ \A j \in 1..Len(c.modules[i].sessions) :
         /\ "sections" \in DOMAIN c.modules[i].sessions[j]
         /\ Len(c.modules[i].sessions[j].sections) \in 2..4
         /\ \A k \in 1..Len(c.modules[i].sessions[j].sections) :
              /\ "section_content" \in DOMAIN c.modules[i].sessions[j].sections[k]
              /\ c.modules[i].sessions[j].sections[k].section_content # <<>>

\* C13: validate_course_structure returns false for every course whose number
\* of modules is outside 2..3 (1 and 6 among them), and true for a course of 2
\* or of 3 modules whose sessions and sections pass the other checks.
C13_ModuleCountGate ==
  (vResult # None /\ "modules" \in DOMAIN vCourse[1]) =>
    /\ Len(vCourse[1].modules) \notin 2..3 => vResult = Some(FALSE)
    /\ (Len(vCourse[1].modules) \in 2..3 /\ SessionsAndSectionsPass(vCourse[1])) =>
         vResult = Some(TRUE)

\* a course of six modules that passes every other check has been rejected
C13_Witness ==
  /\ vResult = Some(FALSE)
  /\ "modules" \in DOMAIN vCourse[1]
  /\ Len(vCourse[1].modules) = MaxCourseModules
  /\ SessionsAndSectionsPass(vCourse[1])

\* the counts of a course and the content body of its Section records: the
\* text generate_course stores under "content"
WellFormedCourse(c) ==
  /\ "modules" \in DOMAIN c
  /\ Len(c.modules) \in 2..3
  /\ \A i \in 1..Len(c.modules) :
       /\ "sessions" \in DOMAIN c.modules[i]
       /\ Len(c.modules[i].sessions) \in 3..5
       /\ \A j \in 1..Len(c.modules[i].sessions) :
            /\ "sections" \in DOMAIN c.modules[i].sessions[j]
            /\ Len(c.modules[i].sessions[j].sections) \in 2..4
            /\ \A k \in 1..Len(c.modules[i].sessions[j].sections) :
                 /\ "content" \in DOMAIN c.modules[i].sessions[j].sections[k]
                 /\ c.modules[i].sessions[j].sections[k].content # <<>>

\* C14: validate_course_structure returns true exactly when the course has 2..3
\* modules, every module 3..5 sessions, every session 2..4 sections and every
\* section a non-empty content body; in every other case it returns false.
C14_TrueExactlyWhenWellFormed ==
  vResult # None => (vResult = Some(TRUE) <=> WellFormedCourse(vCourse[1]))

\* a module heading as the outline format writes it: one to three '#',
\* "Module", a number, ":" or ".", a title
IsModuleHeading(l) ==
  /\ l.lead \in {"#", "##", "###"}
  /\ Len(l.words) > 3
  /\ l.words[1] = "Module"
  /\ l.words[2] \in IntWords
  /\ l.words[3] \in {":", "."}

ModuleHeadings(text) == SelectSeq(text, IsModuleHeading)

\* C15: for every sequence of input lines, parse_module_outline returns exactly
\* one record per line that matches the module heading pattern, in input order,
\* each carrying the number and the title of its heading.
C15_OneRecordPerHeading ==
  pResult # None =>
    /\ Len(pResult[1]) = Len(ModuleHeadings(pText[1]))
    /\ \A i \in 1..Len(pResult[1]) :
         /\ pResult[1][i].number = ModuleHeadings(pText[1])[i].words[2]
         /\ pResult[1][i].title =
              JoinWords(SubSeq(ModuleHeadings(pText[1])[i].words, 4,
                               Len(ModuleHeadings(pText[1])[i].words)))

\* two headings among other lines have given two records, the second heading
\* not on the last line
C15_Witness ==
  /\ pResult # None
  /\ Len(pResult[1]) = 2
  /\ pResult[1][1].number # pResult[1][2].number
  /\ Len(pText[1]) > 3
  /\ ~IsModuleHeading(pText[1][Len(pText[1])])

\* the descriptions the outline format gives the modules of a text: a module
\* heading opens a module, a "####" heading with "description" in it opens
\* its description, any other heading closes it, and every non-blank line in
\* between is joined to the description with a blank
DescriptionStep(acc, l) ==
  IF IsModuleHeading(l) THEN [descs |-> Append(acc.descs, ""), on |-> FALSE]
  ELSE IF StartsWithHash(l) THEN
    [acc EXCEPT !.on = /\ l.lead = "####"
                       /\ acc.descs # <<>>
                       /\ \E i \in 1..Len(l.words) : Lower(l.words[i]) = "description"]
  ELSE IF acc.on /\ ~IsBlank(l) THEN
    [acc EXCEPT !.descs[Len(acc.descs)] =
       IF @ = "" THEN StripBullets(l) ELSE @ \o " " \o StripBullets(l)]
  ELSE acc

RECURSIVE DescriptionScan(_, _)
DescriptionScan(text, n) ==
  IF n = 0 THEN [descs |-> <<>>, on |-> FALSE]
  ELSE DescriptionStep(DescriptionScan(text, n - 1), text[n])

\* C16: the description of each module parse_module_outline returns is the
\* space-joined concatenation, in input order, of all non-blank lines that
\* follow a '####' heading containing 'description' up to the next heading of
\* that module.
C16_DescriptionIsAllLines ==
  pResult # None =>
    [i \in 1..Len(pResult[1]) |-> pResult[1][i].description]
      = DescriptionScan(pText[1], Len(pText[1])).descs

\* the lines of a text that start with exactly one '#'
TopLevelHeadings(text) == {i \in 1..Len(text) : text[i].lead = "#"}

\* C17: in parse_section_content a line starting with '##' opens no new
\* top-level Section, so the number of Sections returned never exceeds the
\* number of lines that start with exactly one '#'.
C17_SubheadingOpensNoSection ==
  pResult # None => Len(pResult[1]) <= Cardinality(TopLevelHeadings(pText[1]))

\* C18: parse_section_content never emits a Section with an empty content
\* body: every Section of the returned list has non-empty content.
C18_NoEmptySection ==
  pResult # None => \A i \in 1..Len(pResult[1]) : pResult[1][i].content # ""

\* a '**Session' line from which no session number can be extracted
HeaderWithoutNumber(l) == IsSessionHeader(l) /\ FirstNumber(l.words) = None

KeepsLine(l) == ~HeaderWithoutNumber(l)

\* C19: in parse_session_outline a '**Session' line without a session number
\* is skipped entirely: the result for any input equals the result for the
\* same input with that line removed.
C19_HeaderWithoutNumberSkipped ==
  pResult # None => pResult[1] = parse_session_outline(SelectSeq(pText[1], KeepsLine))

\* the scan after the first n lines of a text
SessionScanned(text, n) == SessionScan(SessionScanInit, text, 1, n)

\* line i of the text is an item line read while a session is open and a
\* sub-field is selected
ItemOfSelectedField(text, i) ==
  /\ text[i].lead \in {"+", "-"}
  /\ SessionScanned(text, i - 1).current_session # None
  /\ SessionScanned(text, i - 1).current_section # None

\* reading line i appends it, without its marker, to the selected sub-field:
\* a list gets the line as its last entry, the description gets longer
ItemAppended(text, i) ==
  IF SessionScanned(text, i - 1).current_section = Some("description")
  THEN SessionScanned(text, i).current_session[1].description
         # SessionScanned(text, i - 1).current_session[1].description
  ELSE SessionScanned(text, i).current_session[1]
           [SessionScanned(text, i - 1).current_section[1]]
         = Append(SessionScanned(text, i - 1).current_session[1]
                    [SessionScanned(text, i - 1).current_section[1]],
                  JoinWords(text[i].words))

\* C20: in parse_session_outline every line starting with '+' or '-' that
\* follows an open session's '* ' sub-field line is appended, marker stripped
\* and in input order, to the sub-field currently selected for that session
\* (Description, Key Concepts, Visual Elements or Resources).
C20_ItemsGoToSelectedField ==
  pResult # None =>
    \A i \in 1..Len(pText[1]) : ItemOfSelectedField(pText[1], i) => ItemAppended(pText[1], i)

\* a question-opening line: a number and a dot, then the question
IsQuestionOpening(l) == l.lead \in {"1.", "2.", "3."}

\* a line beginning 'answer:' or 'correct:', whatever its case
SetsCorrectAnswer(l) ==
  /\ l.lead = ""
  /\ Len(l.words) > 1
  /\ Lower(l.words[1]) \in {"answer", "correct"}
  /\ l.words[2] = ":"

\* the correct answers of the questions of a text: None for a question until
\* a line that sets the correct answer follows it
CorrectAnswerStep(acc, l) ==
  IF IsQuestionOpening(l) THEN Append(acc, None)
  ELSE IF SetsCorrectAnswer(l) /\ acc # <<>>
  THEN [acc EXCEPT ![Len(acc)] = Some(JoinWords(SubSeq(l.words, 3, Len(l.words))))]
  ELSE acc

RECURSIVE CorrectAnswers(_, _)
CorrectAnswers(text, n) ==
  IF n = 0 THEN <<>> ELSE CorrectAnswerStep(CorrectAnswers(text, n - 1), text[n])

\* C21: the Assessment Parser returns one Question record per question-opening
\* line, each with its type, the option lines that follow it, the correct
\* answer from a line beginning 'answer:' or 'correct:' and the explanation
\* from a line beginning 'explanation:'.  Of a record the parser's result
\* holds the opening line and the answer: the formula states the claim for
\* these two.
C21_OneQuestionPerOpening ==
  pResult # None =>
    /\ Len(pResult[1].questions) = Len(SelectSeq(pText[1], IsQuestionOpening))
    /\ pResult[1].answers = CorrectAnswers(pText[1], Len(pText[1]))

\* the line opens a record of the parser
OpensRecord(parser, l) ==
  CASE parser = "parse_module_outline" -> IsModuleHeading(l)
    [] parser = "parse_section_content" -> l.lead \in {"#", "##", "###", "####"}
    [] parser = "parse_session_outline" -> l.lead = "**" /\ l.words # <<>> /\ l.words[1] = "Session"
    [] OTHER -> IsQuestionOpening(l)

\* the empty collection of the parser
EmptyResult(parser) ==
  IF parser = "parse_assessment_content" THEN [questions |-> <<>>, answers |-> <<>>]
  ELSE <<>>

\* C22: none of the four parsers raises on any input: an empty reply, and any
\* input in which no line matches the parser's record-opening pattern, yields
\* an empty collection.
C22_NoiseGivesEmptyResult ==
  (/\ pResult # None
   /\ \A i \in 1..Len(pText[1]) : ~OpensRecord(pResult[1].parser, pText[1][i])) =>
    pResult[1].value = EmptyResult(pResult[1].parser)

\* the section parser has returned the empty list for three lines of text,
\* none of them blank and none opening a section
C22_Witness ==
  /\ pResult # None
  /\ pResult[1].parser = "parse_section_content"
  /\ pResult[1].value = <<>>
  /\ Len(pText[1]) = 3
  /\ \A i \in 1..Len(pText[1]) :
       ~IsBlank(pText[1][i]) /\ ~OpensRecord("parse_section_content", pText[1][i])

\* C23: in every state of the staged workflow that a run started through the
\* start node reaches, the retry counter equals 0, so should_continue never
\* takes its 'retries >= 5' branch.
C23_RetriesStayZero ==
  ran # <<>> => st.retries = 0 /\ st.retries < RetryLimit

\* a run has gone through all six nodes
C23_Witness ==
  /\ node = "finished"
  /\ Len(ran) = 6
  /\ st.retries = 0

\* C24: a run of the staged workflow always starts from stage zero: whatever
\* current_stage, error, retries and completed the input state carries, after
\* the start node they are 'start', unset, 0 and false, and the next node is
\* create_outline.
C24_StartsFromStageZero ==
  ran = <<"start">> =>
    /\ st.current_stage = "start"
    /\ st.error = None
    /\ st.retries = 0
    /\ st.completed = FALSE
    /\ node = "create_outline"

\* the start node has run and nothing else
C24_Witness ==
  /\ ran = <<"start">>
  /\ node = "create_outline"
  /\ st.status = "Initializing course generation"

\* the number of sessions of a course plan
RECURSIVE PlannedSessions(_)
PlannedSessions(modules) ==
  IF modules = <<>> THEN 0
  ELSE Len(Head(modules).sessions) + PlannedSessions(Tail(modules))

SessionsTried == Len(SelectSeq(cfsTried, LAMBDA name : name = "generate_session_content"))

\* C25: in create_course_from_state a failure while generating one session is
\* caught and does not abort the module: every session of every module of the
\* plan is still attempted, and the function returns a course.
C25_EverySessionAttempted ==
  (/\ cfsResult # None
   /\ cfsState[1].course_plan # None
   /\ cfsState[1].course_outline # None) =>
    /\ ~cfsResult[1].raised
    /\ SessionsTried = PlannedSessions(cfsState[1].course_plan[1].modules)

\* C26: every ModulePlan of a course completed by the staged workflow has at
\* least one session: no run reaches completed = true with a module whose
\* sessions list is empty.
C26_CompletedModulesHaveSessions ==
  (ran # <<>> /\ st.completed) =>
    \A i \in 1..Len(st.modules[1]) : st.modules[1][i].sessions # <<>>

\* C27: pipeline invocations share no mutable state: when two generations run
\* interleaved, no variable written by one run is read or written by the
\* other; every state has exactly one writer.
C27_NoSharedState ==
  Cardinality(rwriters) < 2

\* the first five of a list of modules, all of them when there are fewer
FirstFive(full) == [i \in 1..(IF Len(full) > 5 THEN 5 ELSE Len(full)) |-> full[i]]

C29_CompletedMeansCourse ==
  /\ [](ran # <<>> => (st.completed => st.error = None /\ st.course # None))
  /\ [][st'.course # st.course => node = "finalize"]_vars

\* the finalize stage has run and the workflow has ended
C29_Witness ==
  /\ node = "finished"
  /\ st.completed
  /\ st.course # None
  /\ st.error = None

\* C30: for an outline written in the exact format the outline prompt requests
\* (a '#### Description and Key Points:' heading, then a '* Learning
\* Objectives:' bullet with '+' objective bullets, then '#### Hands-on
\* Exercise:'), parse_module_outline puts each objective bullet into the
\* module's objectives list and none of them into its description.
C30_PromptFormatObjectives ==
  (ran # <<>> /\ st.course_outline # None) =>
    \A i \in 1..Len(st.course_outline[1].modules) :
      /\ st.course_outline[1].modules[i].objectives = <<"Know it">>
      /\ st.course_outline[1].modules[i].description = "Covers the basics"

\* the positions of the heading lines of a text (every line starting with '#')
HeadingIndexes(text) == {i \in 1..Len(text) : StartsWithHash(text[i])}

\* the position of the k-th heading line
NthHeading(text, k) ==
  CHOOSE i \in HeadingIndexes(text) :
    Cardinality({j \in HeadingIndexes(text) : j <= i}) = k

\* the non-blank lines between the k-th heading and the next heading, joined
\* with newlines
ContentBetween(text, k) ==
  LET from == NthHeading(text, k)
      later == {j \in HeadingIndexes(text) : j > from}
      upto == IF later = {} THEN Len(text) + 1
              ELSE CHOOSE j \in later : \A m \in later : j <= m
      body == SelectSeq(SubSeq(text, from + 1, upto - 1), LAMBDA l : ~IsBlank(l))
  IN JoinLines([j \in 1..Len(body) |-> LineText(body[j])])

\* C31: in parse_section_content the content of each returned Section consists
\* only of the non-heading lines between that section's heading and the next
\* heading; lines that precede the first heading appear in no Section.
C31_ContentBetweenHeadings ==
  pResult # None =>
    \A i \in 1..Len(pResult[1]) :
      /\ i <= Cardinality(HeadingIndexes(pText[1]))
      /\ pResult[1][i].content = ContentBetween(pText[1], i)

\* a '**Session' line with a colon, a number before it and a non-empty title
\* after it
IsWellFormedHeader(l) ==
  /\ IsSessionHeader(l)
  /\ FirstColon(l.words) # 0
  /\ FirstNumber(SubSeq(l.words, 1, FirstColon(l.words) - 1)) # None
  /\ FirstColon(l.words) < Len(l.words)

\* (number, title) of a well-formed header
HeaderKey(l) ==
  LET c == FirstColon(l.words)
  IN <<FirstNumber(SubSeq(l.words, 1, c - 1))[1],
       JoinWords(SubSeq(l.words, c + 1, Len(l.words)))>>

\* (number, title) of each well-formed header of a text, in input order
WellFormedHeaders(text) ==
  LET hs == SelectSeq(text, IsWellFormedHeader)
  IN [i \in 1..Len(hs) |-> HeaderKey(hs[i])]

\* C32: for every input parse_session_outline returns exactly one record per
\* well-formed session header, in input order; no record appears twice,
\* whatever malformed '**Session' lines are interleaved.
C32_OneRecordPerHeader ==
  pResult # None =>
    [i \in 1..Len(pResult[1]) |->
       <<pResult[1][i].session_number, pResult[1][i].title>>]
      = WellFormedHeaders(pText[1])

\* the numbered question lines of a text, in input order
NumberedLines(text) ==
  LET qs == SelectSeq(text, IsNumbered)
  IN [i \in 1..Len(qs) |-> LineText(qs[i])]

\* for each numbered line the answer line that followed it (the last one
\* before the next numbered line), None when none followed
AnswerAfterStep(acc, l) ==
  IF IsBlank(l) THEN acc
  ELSE IF IsNumbered(l) THEN Append(acc, None)
  ELSE IF IsAnswerLine(l) /\ acc # <<>>
  THEN [acc EXCEPT ![Len(acc)] = Some(JoinWords(After(l.words, <<":">>)))]
  ELSE acc

RECURSIVE AnswersAfter(_, _)
AnswersAfter(text, n) ==
  IF n = 0 THEN <<>> ELSE AnswerAfterStep(AnswersAfter(text, n - 1), text[n])

\* C33: for every input parse_assessment_content returns every numbered
\* question line exactly once, in input order, with questions and answers of
\* equal length and answers[i] the answer line that followed questions[i];
\* a question is kept whether or not it is the last one and whether or not an
\* answer line follows it.
C33_EveryQuestionKept ==
  pResult # None =>
    /\ pResult[1].questions = NumberedLines(pText[1])
    /\ Len(pResult[1].answers) = Len(pResult[1].questions)
    /\ pResult[1].answers = AnswersAfter(pText[1], Len(pText[1]))

\* C34: if create_session_content_state fails while expanding some session,
\* the modules in the workflow state are left as they were before the stage:
\* every module still holds its session stubs and none holds expanded sessions.
C34_FailedStageKeepsModules ==
  [][(node = "create_sessions" /\ TruthyStr(st'.error)) => st'.modules = st.modules]_vars

\* C35: generate_with_status preserves the terminal outcome of
\* generate_course: for every Failure event of the pipeline (error set) the
\* update delivered to on_generate has the same non-empty error, so
\* on_generate reports the error and stops.
C35_FailureReachesOnGenerate ==
  (events # <<>> /\ "error" \in DOMAIN LastEvent) =>
    /\ aUpdates # <<>>
    /\ aUpdates[Len(aUpdates)].error = Some(LastEvent.error)
    /\ aShown[Len(aShown)] = <<"Error: " \o LastEvent.error, "">>
    /\ aReply # None

(***************************************************************************)
(* The handlers of the interface on a stored course: load_course,          *)
(* submit_answer and next_session, called in any order.  Each handler runs *)
(* to its return before the next is called and catches what it raises.     *)
(***************************************************************************)
AppQuestion(i) ==
  [text |-> "Question " \o ToString(i), correct_answers |-> <<"yes">>,
   explanation |-> "Because."]

AppSession(m, j, q) ==
  [title |-> "Session " \o Dotted(m, j),
   assessment |-> [questions |-> [i \in 1..q |-> AppQuestion(i)]]]

AppModule(m, k, q) ==
  [title |-> "Module " \o ToString(m),
   sessions |-> [j \in 1..k |-> AppSession(m, j, q)]]

\* the stored courses: one or more modules, each with one or more sessions,
\* every session with an assessment of q questions
AppCourses ==
  {[topic |-> "Async IO", language |-> "English",
    modules |-> [m \in 1..Len(ks) |-> AppModule(m, ks[m], q)]] :
     ks \in UNION {[1..n -> 1..MaxAppSessions] : n \in 1..MaxAppModules},
     q \in 1..MaxAppQuestions}

\* what the user may type as an answer
AppAnswers == {"yes", "no"}

AppInit ==
  /\ \E c \in AppCourses : AppStarted([NoCourses EXCEPT !["stored_course"] = Some(c)])
  /\ WorkflowIdle
  /\ ScIdle
  /\ GenIdle
  /\ ValIdle
  /\ ParseIdle
  /\ CfsIdle
  /\ RunsIdle

\* the handler returned r
HandlerDone(r) ==
  /\ aState' = Some(r.state)
  /\ aProgress' = Some(r.progress)
  /\ aReply' = Some(r.status)
  /\ UNCHANGED <<aCourses, aUpdates, aShown, wfVars, scVars, genVars, valVars,
                 parseVars, cfsVars, runVars>>

LoadCourse ==
  /\ aState # None
  /\ \E id \in CourseIds :
       \E r \in {load_course(aState[1], aCourses[1], aProgress[1], id)} : HandlerDone(r)

SubmitAnswer ==
  /\ aState # None
  /\ \E answer \in AppAnswers :
       \E r \in {submit_answer(aState[1], aProgress[1], answer)} : HandlerDone(r)

NextSession ==
  /\ aState # None
  /\ \E r \in {next_session(aState[1], aProgress[1])} : HandlerDone(r)

AppNext ==
  \/ LoadCourse
  \/ SubmitAnswer
  \/ NextSession

AppSpec == AppInit /\ [][AppNext]_vars

\* a course is loaded
CourseLoaded == aState # None /\ aState[1].course # None

\* C36: with a course loaded, after any sequence of next_session and
\* submit_answer calls (current_module_idx, current_session_idx) indexes an
\* existing session of the course, also after 'Course completed!' has been
\* returned.
C36_IndexesExistingSession ==
  CourseLoaded =>
    /\ aState[1].current_module_idx < Len(aState[1].course[1].modules)
    /\ aState[1].current_session_idx
         < Len(aState[1].course[1].modules[aState[1].current_module_idx + 1].sessions)

\* the keys in completed_sessions of the stored progress of the loaded course
CompletedKeys(files) ==
  IF files = None \/ files[1]["stored_course"] = None THEN {}
  ELSE {files[1]["stored_course"][1].completed_sessions[i] :
          i \in 1..Len(files[1]["stored_course"][1].completed_sessions)}

\* C37: a session key appears in completed_sessions of the stored progress
\* only after that session's assessment was answered to the end; moving to a
\* session with next_session does not mark it completed; completed_sessions
\* never holds the same key twice.
C37_CompletedOnlyWhenAnswered ==
  /\ [][CompletedKeys(aProgress') # CompletedKeys(aProgress) =>
          /\ aReply' = Some("Assessment completed!")
          /\ CompletedKeys(aProgress') =
               CompletedKeys(aProgress)
                 \cup {SessionKey(aState[1].current_module_idx,
                                  aState[1].current_session_idx)}]_vars
  /\ [](aProgress # None /\ aProgress[1]["stored_course"] # None =>
          Cardinality(CompletedKeys(aProgress))
            = Len(aProgress[1]["stored_course"][1].completed_sessions))

====
